---- MODULE Spec2Model ----
(***************************************************************************)
(* Coordination core of dev-browser-skill: the profile lock                *)
(* (acquireProfileLock / readLock / removeLock), the port allocator        *)
(* (findAvailablePort / isPortAvailable) and the instance registry with    *)
(* its lifecycle controller (registerInstance ... stopInstance,            *)
(* stopAllInstances, cleanOrphanedChrome, formatUptime), run by            *)
(* independent OS processes that share one filesystem, one TCP port space  *)
(* and one process table.  Every filesystem or socket system call is one   *)
(* atomic step of a process; processes interleave freely and may crash     *)
(* between any two steps.                                                  *)
(***************************************************************************)
EXTENDS Integers, FiniteSets, Sequences, TLC

(***************************************************************************)
(* Bounds of the model.                                                    *)
(***************************************************************************)
NumProcs == 2
MaxTime == 2
MaxRemoves == 2
WindowSize == 4
MaxAttemptsTried == 3
NumPorts == 2
NumServers == 2
MaxDays == 2
MaxSkew == 2

(***************************************************************************)
(* Program constants.                                                      *)
(***************************************************************************)
DefaultPort == 9222
DefaultMaxAttempts == 20
MaxPortNumber == 65535

Procs == 1..NumProcs
\* A pid that is none of the calling processes: a former owner of the lock.
OtherPid == NumProcs + 1
Pids == Procs \cup {OtherPid}
Times == 1..MaxTime
\* The port argument of process i's call: every instance brings its own port.
portOf(i) == DefaultPort + 2 * i
\* The clock reading of the calls: they all happen within one clock tick, after
\* every acquisition of the former owner.
Now == MaxTime + 1

VARIABLES
  \* ---- profile lock: shared state
  dirExists,   \* the profile directory exists
  lockFile,    \* content of <profileDir>/.dev-browser.lock
  alive,       \* the pids of the live processes
  \* ---- profile lock: one acquireProfileLock call per process
  lpc,         \* position of each process in acquireProfileLock
  existing,    \* local `existing`
  winner,      \* local `winner`
  lockData,    \* local `lockData`
  lresult,     \* how the call ended: returned, or the error it threw
  atStart,     \* the lock file and the live pids before any call
  wxTries,     \* exclusive-create (wx) writes the call attempted
  unlinks,     \* removeLock calls made inside acquireProfileLock
  removes      \* removeLock calls the process made after acquiring

VARIABLES
  \* ---- port allocator: the inputs of findAvailablePort and the port space
  requestedPort,     \* argument requestedPort
  requestedCdpPort,  \* argument requestedCdpPort: {} when undefined, else {port}
  maxAttempts,       \* argument maxAttempts
  occupied,          \* ports of the window that other programs listen on
  tailEnd,           \* the ports from the window's end up to tailEnd are in use too
  pcallers,          \* the processes that call findAvailablePort
  \* ---- port allocator: one findAvailablePort call per process
  ppc,               \* position of each process in findAvailablePort
  candidate,         \* local `candidate`
  attempt,           \* local `attempt`
  httpFree,          \* local `httpFree`
  sock,              \* the port the process's probe server listens on: {} or {port}
  presult,           \* the PortSelectionResult returned, or the error thrown
  probed             \* the candidates whose pair the call has probed

VARIABLES
  \* ---- instance registry: shared state
  regDir,      \* the instances directory exists
  regFiles,    \* content of the files of the instances directory, per name
  lastReg,     \* per port, the InstanceInfo of the latest registerInstance
  \* ---- instance registry: the latest call
  rop,         \* its name, its port argument and whether it raised
  returned,    \* what it returned (a sequence of InstanceInfo)
  \* ---- updateInstanceChromePid run step by step by one process
  upc,         \* its position
  uport,       \* argument port
  uinfo,       \* local `info`
  \* ---- listInstances run step by step by one process
  rpc,         \* its position
  rnames,      \* the names readdirSync returned
  \* ---- stopInstance run step by step by one process
  spc,         \* its position
  sport,       \* argument port
  sinfo,       \* local `info`
  strace,      \* the probes, signals and deletions the call made, in order
  sresult      \* the StopResult returned

portVars == <<requestedPort, requestedCdpPort, maxAttempts, occupied, tailEnd,
              pcallers, ppc, candidate, attempt, httpFree, sock, presult, probed>>

lockVars == <<dirExists, lockFile, alive, lpc, existing, winner,
              lockData, lresult, atStart, wxTries, unlinks, removes>>

\* The lock's state without the process table.
lockRest == <<dirExists, lockFile, lpc, existing, winner,
              lockData, lresult, atStart, wxTries, unlinks, removes>>

regVars == <<regDir, regFiles, lastReg, rop, returned,
             upc, uport, uinfo, rpc, rnames, spc, sport, sinfo, strace, sresult>>

VARIABLES
  \* ---- stopAllInstances run step by step by one process
  apc,         \* its position
  aqueue,      \* the records its current loop has still to handle
  aresults,    \* local `results`
  atrace,      \* the probes and signals of its loop over the stale records
  aStart,      \* the registry files and the live pids when it was called
  \* ---- cleanOrphanedChrome run step by step by one process
  opc,         \* its position
  oqueue,      \* the stale records its first loop has still to handle
  chromePids,  \* local `chromePids`: the pids of the scan still to handle
  liveChromePids,  \* local `liveChromePids`
  liveServerPids,  \* local `liveServerPids`
  cleaned,     \* local `cleaned`, and the value returned
  otrace,      \* the signals the call sent, in order, each with its outcome
  oscan,       \* what the process scan gave
  oStart,      \* the registry files and the live pids when it was called
  \* ---- formatUptime
  uptimeStart, \* argument startedAt, as milliseconds since the epoch
  uptime       \* the text returned

allVars == <<apc, aqueue, aresults, atrace, aStart>>
orphVars == <<opc, oqueue, chromePids, liveChromePids, liveServerPids, cleaned,
              otrace, oscan, oStart>>
uptimeVars == <<uptimeStart, uptime>>
restVars == <<allVars, orphVars, uptimeVars>>

vars == <<lockVars, portVars, regVars, restVars>>

(***************************************************************************)
(* Lock file contents.  A file is absent, holds JSON text that is not a    *)
(* LockInfo (unparseable, or without numeric pid / port), or holds a       *)
(* LockInfo record.                                                        *)
(***************************************************************************)
NoFile == [kind |-> "absent", pid |-> 0, port |-> 0, startedAt |-> 0]
CorruptFile == [kind |-> "corrupt", pid |-> 0, port |-> 0, startedAt |-> 0]
IncompleteFile == [kind |-> "incomplete", pid |-> 0, port |-> 0, startedAt |-> 0]
LockInfo(pid, port, startedAt) ==
  [kind |-> "record", pid |-> pid, port |-> port, startedAt |-> startedAt]
Null == [kind |-> "null", pid |-> 0, port |-> 0, startedAt |-> 0]

\* The lock records a former owner (on the default port) may have left behind.
LockInfos == {LockInfo(OtherPid, DefaultPort, t) : t \in Times}

readLockUnchecked(file) ==
  IF file.kind = "absent" THEN Null
  ELSE IF file.kind = "corrupt" THEN Null
  ELSE file

\* readLock: existsSync, readFileSync, JSON.parse and the typeof checks.  The
\* result is null for a missing file and for any content that does not parse to
\* an object with numeric pid and port.  (existsSync and readFileSync are two
\* system calls; a file that vanishes between them makes readFileSync throw,
\* which the catch turns into null, so the call returns what one atomic read
\* at one of the two instants returns.)
readLock(file) ==
  IF file.kind = "absent" THEN Null
  ELSE IF file.kind = "corrupt" THEN Null
  ELSE IF file.kind = "incomplete" THEN Null
  ELSE file

isProcessRunningNever(pid) == FALSE

\* isProcessRunning: process.kill(pid, 0) succeeds exactly for a live pid.
isProcessRunning(pid) == pid \in alive

\* unlinkSync on the lock file: ENOENT when there is no file.
unlinkSync(file) ==
  IF file.kind = "absent"
  THEN [file |-> NoFile, err |-> "ENOENT"]
  ELSE [file |-> NoFile, err |-> "none"]

removeLockKeepsFile(file) == [file |-> file, raised |-> FALSE]

removeLockRethrows(file) ==
  [file |-> unlinkSync(file).file, raised |-> unlinkSync(file).err # "none"]

\* removeLock: unlinkSync inside try / catch {} - every error is swallowed.
removeLock(file) == [file |-> unlinkSync(file).file, raised |-> FALSE]

writeExclusiveOverMalformed(file, data) ==
  IF file.kind # "record"
  THEN [file |-> data, err |-> "none"]
  ELSE [file |-> file, err |-> "EEXIST"]

\* writeFileSync(path, data, { flag: "wx" }): creates the file, or fails with
\* EEXIST when the path already exists (whatever it holds).
writeExclusive(file, data) ==
  IF file.kind = "absent"
  THEN [file |-> data, err |-> "none"]
  ELSE [file |-> file, err |-> "EEXIST"]

(***************************************************************************)
(* How a call of acquireProfileLock ends.                                  *)
(***************************************************************************)
NoResult == [kind |-> "none", pid |-> 0, port |-> 0, startedAt |-> 0]
Returned == [kind |-> "ok", pid |-> 0, port |-> 0, startedAt |-> 0]
\* `Profile directory "..." is locked by another instance (PID, port, started)`
LockedError(holder) ==
  [kind |-> "locked", pid |-> holder.pid, port |-> holder.port,
   startedAt |-> holder.startedAt]
\* `Profile directory "..." was just locked by PID ... on port ...`
JustLockedError(holder) ==
  [kind |-> "justLocked", pid |-> holder.pid, port |-> holder.port, startedAt |-> 0]
\* the second wx write is not inside a try block: its EEXIST propagates as is
RawEexistError == [kind |-> "EEXIST", pid |-> 0, port |-> 0, startedAt |-> 0]

(***************************************************************************)
(* Initial states of the lock scenario: the directory is missing, or       *)
(* exists with no lock, a malformed lock, or the lock record of a former   *)
(* owner, which is live or dead; no process has called yet.                *)
(***************************************************************************)
LockInit ==
  /\ dirExists \in BOOLEAN
  /\ lockFile \in (IF dirExists
                   THEN {NoFile, CorruptFile, IncompleteFile} \cup LockInfos
                   ELSE {NoFile})
  /\ alive \in {Procs, Pids}
  /\ lpc = [i \in Procs |-> "idle"]
  /\ existing = [i \in Procs |-> Null]
  /\ winner = [i \in Procs |-> Null]
  /\ lockData = [i \in Procs |-> Null]
  /\ lresult = [i \in Procs |-> NoResult]
  /\ atStart = [file |-> lockFile, live |-> alive]
  /\ wxTries = [i \in Procs |-> 0]
  /\ unlinks = [i \in Procs |-> 0]
  /\ removes = [i \in Procs |-> 0]

\* No process calls acquireProfileLock.
LockIdle ==
  /\ dirExists = FALSE
  /\ lockFile = NoFile
  /\ alive = {}
  /\ lpc = [i \in Procs |-> "idle"]
  /\ existing = [i \in Procs |-> Null]
  /\ winner = [i \in Procs |-> Null]
  /\ lockData = [i \in Procs |-> Null]
  /\ lresult = [i \in Procs |-> NoResult]
  /\ atStart = [file |-> lockFile, live |-> alive]
  /\ wxTries = [i \in Procs |-> 0]
  /\ unlinks = [i \in Procs |-> 0]
  /\ removes = [i \in Procs |-> 0]

(***************************************************************************)
(* acquireProfileLock(profileDir, port), one step per system call.         *)
(***************************************************************************)
\* entry and mkdirSync(profileDir, { recursive: true })
AcquireCall(i) ==
  /\ i \in alive
  /\ lpc[i] = "idle"
  /\ dirExists' = TRUE
  /\ lpc' = [lpc EXCEPT ![i] = "readExisting"]
  /\ UNCHANGED <<portVars, restVars, regVars, lockFile, alive, existing, winner, lockData, lresult, atStart,
                 wxTries, unlinks, removes>>

\* const existing = readLock(profileDir)
ReadExisting(i) ==
  /\ lpc[i] = "readExisting"
  /\ existing' = [existing EXCEPT ![i] = readLock(lockFile)]
  /\ lpc' = [lpc EXCEPT ![i] =
               IF readLock(lockFile) = Null THEN "write1" ELSE "checkExisting"]
  /\ UNCHANGED <<portVars, restVars, regVars, dirExists, lockFile, alive, winner, lockData,
                 lresult, atStart, wxTries, unlinks, removes>>

\* if (isProcessRunning(existing.pid)) throw new Error(... is locked by ...)
CheckExisting(i) ==
  /\ lpc[i] = "checkExisting"
  /\ IF isProcessRunning(existing[i].pid)
     THEN /\ lresult' = [lresult EXCEPT ![i] = LockedError(existing[i])]
          /\ lpc' = [lpc EXCEPT ![i] = "done"]
     ELSE /\ lpc' = [lpc EXCEPT ![i] = "removeStale"]
          /\ UNCHANGED lresult
  /\ UNCHANGED <<portVars, restVars, regVars, dirExists, lockFile, alive, existing, winner,
                 lockData, atStart, wxTries, unlinks, removes>>

\* removeLock(profileDir) of the stale lock
RemoveStale(i) ==
  /\ lpc[i] = "removeStale"
  /\ lockFile' = removeLock(lockFile).file
  /\ unlinks' = [unlinks EXCEPT ![i] = @ + 1]
  /\ lpc' = [lpc EXCEPT ![i] = IF removeLock(lockFile).raised THEN "raised" ELSE "write1"]
  /\ UNCHANGED <<portVars, restVars, regVars, dirExists, alive, existing, winner, lockData,
                 lresult, atStart, wxTries, removes>>

\* lockData = { pid: process.pid, port, startedAt: now }; first wx write
Write1(i) ==
  /\ lpc[i] = "write1"
  /\ \E now \in {Now} :
       LET data == LockInfo(i, portOf(i), now)
           w == writeExclusive(lockFile, data)
       IN /\ lockData' = [lockData EXCEPT ![i] = data]
          /\ lockFile' = w.file
          /\ IF w.err = "none"
             THEN /\ lresult' = [lresult EXCEPT ![i] = Returned]
                  /\ lpc' = [lpc EXCEPT ![i] = "done"]
             ELSE /\ lpc' = [lpc EXCEPT ![i] = "readWinner"]
                  /\ UNCHANGED lresult
  /\ wxTries' = [wxTries EXCEPT ![i] = @ + 1]
  /\ UNCHANGED <<portVars, restVars, regVars, dirExists, alive, existing, winner, atStart,
                 unlinks, removes>>

\* EEXIST: const winner = readLock(profileDir)
ReadWinner(i) ==
  /\ lpc[i] = "readWinner"
  /\ winner' = [winner EXCEPT ![i] = readLock(lockFile)]
  /\ lpc' = [lpc EXCEPT ![i] =
               IF readLock(lockFile) = Null THEN "removeLost" ELSE "checkWinner"]
  /\ UNCHANGED <<portVars, restVars, regVars, dirExists, lockFile, alive, existing, lockData,
                 lresult, atStart, wxTries, unlinks, removes>>

\* if (winner && isProcessRunning(winner.pid)) throw new Error(... just locked ...)
CheckWinner(i) ==
  /\ lpc[i] = "checkWinner"
  /\ IF isProcessRunning(winner[i].pid)
     THEN /\ lresult' = [lresult EXCEPT ![i] = JustLockedError(winner[i])]
          /\ lpc' = [lpc EXCEPT ![i] = "done"]
     ELSE /\ lpc' = [lpc EXCEPT ![i] = "removeLost"]
          /\ UNCHANGED lresult
  /\ UNCHANGED <<portVars, restVars, regVars, dirExists, lockFile, alive, existing, winner,
                 lockData, atStart, wxTries, unlinks, removes>>

\* winner already died: removeLock(profileDir)
RemoveLost(i) ==
  /\ lpc[i] = "removeLost"
  /\ lockFile' = removeLock(lockFile).file
  /\ unlinks' = [unlinks EXCEPT ![i] = @ + 1]
  /\ lpc' = [lpc EXCEPT ![i] = IF removeLock(lockFile).raised THEN "raised" ELSE "write2"]
  /\ UNCHANGED <<portVars, restVars, regVars, dirExists, alive, existing, winner, lockData,
                 lresult, atStart, wxTries, removes>>

\* the second wx write, outside any try block
Write2(i) ==
  /\ lpc[i] = "write2"
  /\ LET w == writeExclusive(lockFile, lockData[i])
     IN /\ lockFile' = w.file
        /\ lresult' = [lresult EXCEPT ![i] =
                         IF w.err = "none" THEN Returned ELSE RawEexistError]
  /\ wxTries' = [wxTries EXCEPT ![i] = @ + 1]
  /\ lpc' = [lpc EXCEPT ![i] = "done"]
  /\ UNCHANGED <<portVars, restVars, regVars, dirExists, alive, existing, winner, lockData,
                 atStart, unlinks, removes>>

(***************************************************************************)
(* removeLock(profileDir) called by a process that acquired the lock (its  *)
(* graceful shutdown), possibly more than once.                            *)
(***************************************************************************)
RemoveLock(i) ==
  /\ lpc[i] = "done"
  /\ lresult[i] = Returned
  /\ i \in alive
  /\ removes[i] < MaxRemoves
  /\ lockFile' = removeLock(lockFile).file
  /\ removes' = [removes EXCEPT ![i] = @ + 1]
  /\ lpc' = [lpc EXCEPT ![i] = IF removeLock(lockFile).raised THEN "raised" ELSE "done"]
  /\ UNCHANGED <<portVars, restVars, regVars, dirExists, alive, existing, winner, lockData,
                 lresult, atStart, wxTries, unlinks>>

\* A process dies: the former owner, or a process that owns the lock.  (Only the
\* pids stored in the lock file are ever probed, and a process stores its pid
\* by the write that ends its call, so the death of a process in the middle of
\* a call shows to the others exactly as that process taking no more steps.)
Crash(p) ==
  /\ p \in alive
  /\ p \in Procs => lpc[p] = "done" /\ lresult[p] = Returned
  /\ alive' = alive \ {p}
  /\ lpc' = [i \in Procs |-> IF i = p THEN "crashed" ELSE lpc[i]]
  /\ UNCHANGED <<portVars, restVars, regVars, dirExists, lockFile, existing, winner, lockData,
                 lresult, atStart, wxTries, unlinks, removes>>

(***************************************************************************)
(* The port space.  Other programs listen on the ports in `occupied` (a    *)
(* subset of a window that starts at the requested port) and on every port *)
(* from the end of the window up to, not including, tailEnd.  Nothing but  *)
(* the probes changes the port space during a call.                        *)
(***************************************************************************)
ReqPorts == {DefaultPort, MaxPortNumber - 3, MaxPortNumber - 1, MaxPortNumber}
Window(p) == {q \in p..(p + WindowSize - 1) : q <= MaxPortNumber}
WindowEnd(p) == p + WindowSize
AttemptChoices == (1..MaxAttemptsTried) \cup {DefaultMaxAttempts}
ExplicitCdps(p) == {q \in {p + 1, p + 3} : q <= MaxPortNumber}
TailEnds(p, m) == {WindowEnd(p), p + 2 * m, MaxPortNumber + 1}

ExternalInUse(q) ==
  \/ q \in occupied
  \/ q >= WindowEnd(requestedPort) /\ q < tailEnd /\ q <= MaxPortNumber

\* server.listen(port, "127.0.0.1") emits "error" when some socket - another
\* program's, or a probe server that is still open - listens on the port.
portInUse(q) == ExternalInUse(q) \/ \E j \in Procs : q \in sock[j]

(***************************************************************************)
(* What findAvailablePort returns or throws.                               *)
(***************************************************************************)
NoPortResult ==
  [kind |-> "none", port |-> 0, cdpPort |-> 0, wasAutoSelected |-> FALSE,
   requestedPort |-> 0, named |-> {}, flags |-> {}, attempts |-> 0,
   from |-> 0, to |-> 0]

\* return { port: requestedPort, cdpPort: requestedCdpPort, wasAutoSelected: false, requestedPort }
ExplicitResult(req, cdp) ==
  [NoPortResult EXCEPT !.kind = "ok", !.port = req, !.cdpPort = cdp,
                       !.wasAutoSelected = FALSE, !.requestedPort = req]

\* `Port ${requestedPort} is already in use. Specify a different --port.`
HttpInUseError(req) ==
  [NoPortResult EXCEPT !.kind = "inUse", !.named = {req}, !.flags = {"--port"}]

\* `CDP port ${requestedCdpPort} is already in use. Specify a different --cdp-port.`
CdpInUseError(cdp) ==
  [NoPortResult EXCEPT !.kind = "inUse", !.named = {cdp}, !.flags = {"--cdp-port"}]

SelectionResultAlwaysAuto(cand, req) ==
  [NoPortResult EXCEPT !.kind = "ok", !.port = cand, !.cdpPort = cand + 1,
                       !.wasAutoSelected = TRUE, !.requestedPort = req]

\* return { port: candidate, cdpPort: cdpCandidate,
\*          wasAutoSelected: candidate !== requestedPort, requestedPort }
SelectionResult(cand, req) ==
  [NoPortResult EXCEPT !.kind = "ok", !.port = cand, !.cdpPort = cand + 1,
                       !.wasAutoSelected = (cand # req), !.requestedPort = req]

\* `Could not find an available port pair after ${maxAttempts} attempts
\*  (tried ${requestedPort}-${candidate - 2}). Specify an explicit --port.`
ExhaustedError(cand, req, max) ==
  [NoPortResult EXCEPT !.kind = "exhausted", !.attempts = max, !.from = req,
                       !.to = cand - 2, !.flags = {"--port"}]

nextCandidateByOne(cand) == cand + 1

\* candidate += 2
nextCandidate(cand) == cand + 2

explicitOutcomeCdpFirst(httpOk, cdpOk, req, cdp) ==
  IF ~cdpOk THEN CdpInUseError(cdp)
  ELSE IF ~httpOk THEN HttpInUseError(req)
  ELSE ExplicitResult(req, cdp)

\* the two checks after both probes of the explicit pair
explicitOutcome(httpOk, cdpOk, req, cdp) ==
  IF ~httpOk THEN HttpInUseError(req)
  ELSE IF ~cdpOk THEN CdpInUseError(cdp)
  ELSE ExplicitResult(req, cdp)

loopContinuesPastRange(cand, att) == att < maxAttempts

\* the loop condition and the range check at the head of the loop body
loopContinues(cand, att) ==
  /\ att < maxAttempts
  /\ ~(cand > MaxPortNumber \/ cand + 1 > MaxPortNumber)

Explicit == requestedCdpPort # {}
TheCdpPort == CHOOSE q \in requestedCdpPort : TRUE
\* the ports of the pair a process is probing
HttpProbePort(i) == IF Explicit THEN requestedPort ELSE candidate[i]
CdpProbePort(i) == IF Explicit THEN TheCdpPort ELSE candidate[i] + 1

PortInputs ==
  /\ requestedPort \in ReqPorts
  /\ requestedCdpPort \in {{}} \cup {{q} : q \in ExplicitCdps(requestedPort)}
  /\ occupied \in SUBSET Window(requestedPort)

PortLocals ==
  /\ ppc = [i \in Procs |-> "idle"]
  /\ candidate = [i \in Procs |-> requestedPort]
  /\ attempt = [i \in Procs |-> 0]
  /\ httpFree = [i \in Procs |-> FALSE]
  /\ sock = [i \in Procs |-> {}]
  /\ presult = [i \in Procs |-> NoPortResult]
  /\ probed = [i \in Procs |-> {}]

\* One process calls findAvailablePort.
PortInit ==
  /\ PortInputs
  /\ maxAttempts \in AttemptChoices
  /\ tailEnd \in TailEnds(requestedPort, maxAttempts)
  /\ pcallers = {1}
  /\ PortLocals

\* Every process calls findAvailablePort, with the same arguments.
PortRaceInit ==
  /\ PortInputs
  /\ maxAttempts \in 1..MaxAttemptsTried
  /\ tailEnd \in {WindowEnd(requestedPort), MaxPortNumber + 1}
  /\ pcallers = Procs
  /\ PortLocals

\* No process calls findAvailablePort.
PortIdle ==
  /\ requestedPort = DefaultPort
  /\ requestedCdpPort = {}
  /\ maxAttempts = DefaultMaxAttempts
  /\ occupied = {}
  /\ tailEnd = WindowEnd(DefaultPort)
  /\ pcallers = {}
  /\ PortLocals

(***************************************************************************)
(* findAvailablePort(requestedPort, requestedCdpPort, maxAttempts).  Each  *)
(* isPortAvailable is two steps: server.listen, which fails at once or     *)
(* leaves the probe server listening, and server.close.                    *)
(***************************************************************************)
\* The head of the auto-selection loop for candidate cand, attempt att: go on
\* to probe the pair, or leave the loop and throw.
LoopHead(i, cand, att) ==
  /\ candidate' = [candidate EXCEPT ![i] = cand]
  /\ attempt' = [attempt EXCEPT ![i] = att]
  /\ IF loopContinues(cand, att)
     THEN /\ ppc' = [ppc EXCEPT ![i] = "httpListen"]
          /\ UNCHANGED presult
     ELSE /\ ppc' = [ppc EXCEPT ![i] = "done"]
          /\ presult' = [presult EXCEPT ![i] =
                           ExhaustedError(cand, requestedPort, maxAttempts)]

FindCall(i) ==
  /\ i \in pcallers
  /\ ppc[i] = "idle"
  /\ IF Explicit
     THEN /\ ppc' = [ppc EXCEPT ![i] = "httpListen"]
          /\ UNCHANGED <<candidate, attempt, presult>>
     ELSE LoopHead(i, requestedPort, 0)
  /\ UNCHANGED <<lockVars, regVars, restVars, requestedPort, requestedCdpPort, maxAttempts, occupied,
                 tailEnd, pcallers, httpFree, sock, probed>>

\* isPortAvailable(candidate) / isPortAvailable(requestedPort): listen
HttpListen(i) ==
  /\ ppc[i] = "httpListen"
  /\ IF portInUse(HttpProbePort(i))
     THEN /\ httpFree' = [httpFree EXCEPT ![i] = FALSE]
          /\ ppc' = [ppc EXCEPT ![i] = "cdpListen"]
          /\ UNCHANGED sock
     ELSE /\ sock' = [sock EXCEPT ![i] = {HttpProbePort(i)}]
          /\ ppc' = [ppc EXCEPT ![i] = "httpClose"]
          /\ UNCHANGED httpFree
  /\ UNCHANGED <<lockVars, regVars, restVars, requestedPort, requestedCdpPort, maxAttempts, occupied,
                 tailEnd, pcallers, candidate, attempt, presult, probed>>

\* server.close(() => resolve(true))
HttpClose(i) ==
  /\ ppc[i] = "httpClose"
  /\ sock' = [sock EXCEPT ![i] = {}]
  /\ httpFree' = [httpFree EXCEPT ![i] = TRUE]
  /\ ppc' = [ppc EXCEPT ![i] = "cdpListen"]
  /\ UNCHANGED <<lockVars, regVars, restVars, requestedPort, requestedCdpPort, maxAttempts, occupied,
                 tailEnd, pcallers, candidate, attempt, presult, probed>>

\* Both probes of the pair are done: the explicit pair is returned or refused;
\* the candidate pair is returned, or the next candidate is taken.
Decide(i, cdpFree) ==
  IF Explicit
  THEN /\ presult' = [presult EXCEPT ![i] =
                        explicitOutcome(httpFree[i], cdpFree, requestedPort, TheCdpPort)]
       /\ ppc' = [ppc EXCEPT ![i] = "done"]
       /\ UNCHANGED <<candidate, attempt, probed>>
  ELSE /\ probed' = [probed EXCEPT ![i] = @ \cup {candidate[i]}]
       /\ IF httpFree[i] /\ cdpFree
          THEN /\ presult' = [presult EXCEPT ![i] =
                                SelectionResult(candidate[i], requestedPort)]
               /\ ppc' = [ppc EXCEPT ![i] = "done"]
               /\ UNCHANGED <<candidate, attempt>>
          ELSE LoopHead(i, nextCandidate(candidate[i]), attempt[i] + 1)

\* isPortAvailable(cdpCandidate) / isPortAvailable(requestedCdpPort): listen
CdpListen(i) ==
  /\ ppc[i] = "cdpListen"
  /\ IF portInUse(CdpProbePort(i))
     THEN /\ Decide(i, FALSE)
          /\ UNCHANGED sock
     ELSE /\ sock' = [sock EXCEPT ![i] = {CdpProbePort(i)}]
          /\ ppc' = [ppc EXCEPT ![i] = "cdpClose"]
          /\ UNCHANGED <<candidate, attempt, presult, probed>>
  /\ UNCHANGED <<lockVars, regVars, restVars, requestedPort, requestedCdpPort, maxAttempts, occupied,
                 tailEnd, pcallers, httpFree>>

\* server.close(() => resolve(true)), then the decision on the pair
CdpClose(i) ==
  /\ ppc[i] = "cdpClose"
  /\ sock' = [sock EXCEPT ![i] = {}]
  /\ Decide(i, TRUE)
  /\ UNCHANGED <<lockVars, regVars, restVars, requestedPort, requestedCdpPort, maxAttempts, occupied,
                 tailEnd, pcallers, httpFree>>

PortNext ==
  \/ \E i \in Procs : FindCall(i)
  \/ \E i \in Procs : HttpListen(i)
  \/ \E i \in Procs : HttpClose(i)
  \/ \E i \in Procs : CdpListen(i)
  \/ \E i \in Procs : CdpClose(i)

LockNext ==
  \/ \E i \in Procs : AcquireCall(i)
  \/ \E i \in Procs : ReadExisting(i)
  \/ \E i \in Procs : CheckExisting(i)
  \/ \E i \in Procs : RemoveStale(i)
  \/ \E i \in Procs : Write1(i)
  \/ \E i \in Procs : ReadWinner(i)
  \/ \E i \in Procs : CheckWinner(i)
  \/ \E i \in Procs : RemoveLost(i)
  \/ \E i \in Procs : Write2(i)
  \/ \E i \in Procs : RemoveLock(i)
  \/ \E p \in Pids : Crash(p)


(***************************************************************************)
(* The instance registry: one file <port>.json per instance in the         *)
(* instances directory, written and read as JSON text.                     *)
(***************************************************************************)
\* The primary ports of the instances: each instance takes a pair of ports.
RegPorts == {DefaultPort + 2 * k : k \in 0..(NumPorts - 1)}
\* The pids of the server processes, and the pid of a browser child.
ServerPids == 1..NumServers
ChromePid == NumServers + 1
RegPids == ServerPids \cup {ChromePid}

\* The value `undefined` of a number field and of a string field.
UndefinedNum == -1
UndefinedStr == "undefined"

\* A parsed JSON value is an object with the fields of InstanceInfo, or null.
InstanceInfo(pid, port, mode, profileDir, chromePid) ==
  [type |-> "object", pid |-> pid, port |-> port, cdpPort |-> port + 1,
   mode |-> mode, label |-> "dev-browser", headless |-> TRUE, startedAt |-> Now,
   profileDir |-> profileDir, chromePid |-> chromePid]
JsNull ==
  [type |-> "null", pid |-> 0, port |-> 0, cdpPort |-> 0,
   mode |-> "", label |-> "", headless |-> FALSE, startedAt |-> 0,
   profileDir |-> "", chromePid |-> 0]

\* The records instances register: a launched browser with its profile
\* directory; the pid of the browser is not known yet.
InstanceInfos ==
  {InstanceInfo(pid, port, "launch", "profile", UndefinedNum) :
     pid \in ServerPids, port \in RegPorts}

\* File contents: no file, text that is not JSON, or JSON text.  JSON text is
\* the value it denotes and the names of the keys it leaves out.
RegNoFile == [kind |-> "absent", omitted |-> {}, value |-> JsNull]
RegCorruptFile == [kind |-> "corrupt", omitted |-> {}, value |-> JsNull]

\* The fields of an object that hold `undefined`.
undefinedFields(v) ==
  (IF v.profileDir = UndefinedStr THEN {"profileDir"} ELSE {})
    \cup (IF v.chromePid = UndefinedNum THEN {"chromePid"} ELSE {})

\* JSON.stringify(info, null, 2) + "\n": null is the text `null`; the keys of
\* an object whose value is undefined are left out of the text.
stringify(v) ==
  IF v.type = "null"
  THEN [kind |-> "json", omitted |-> {}, value |-> JsNull]
  ELSE [kind |-> "json", omitted |-> undefinedFields(v),
        value |-> [v EXCEPT !.profileDir = IF @ = UndefinedStr THEN "" ELSE @,
                            !.chromePid = IF @ = UndefinedNum THEN 0 ELSE @]]

\* JSON.parse(raw) of JSON text: reading a key the text leaves out gives
\* undefined.
parse(file) ==
  IF file.value.type = "null"
  THEN JsNull
  ELSE [file.value EXCEPT
          !.profileDir = IF "profileDir" \in file.omitted THEN UndefinedStr ELSE @,
          !.chromePid = IF "chromePid" \in file.omitted THEN UndefinedNum ELSE @]

\* readFileSync followed by JSON.parse throws: ENOENT, or a SyntaxError.
readThrows(file) == file.kind # "json"

\* A record file holding the text `null`: JSON, but no InstanceInfo.
NullTextFile == stringify(JsNull)

instancePathShared(port) == DefaultPort

\* instancePath(port): the file <port>.json; the files are keyed by that port.
instancePath(port) == port

regWriteKeepsExisting(files, path, text) ==
  IF files[path].kind = "absent" THEN [files EXCEPT ![path] = text] ELSE files

\* writeFileSync(path, text, "utf-8"): creates or replaces the file.
regWrite(files, path, text) == [files EXCEPT ![path] = text]

regUnlinkLeavesFile(files, path) ==
  [files |-> files, err |-> IF files[path].kind = "absent" THEN "ENOENT" ELSE "none"]

\* unlinkSync(path): removes the file, or throws ENOENT.
regUnlink(files, path) ==
  IF files[path].kind = "absent"
  THEN [files |-> files, err |-> "ENOENT"]
  ELSE [files |-> [files EXCEPT ![path] = RegNoFile], err |-> "none"]

unregisterInstanceRethrows(files, port) ==
  [files |-> regUnlink(files, instancePath(port)).files,
   raised |-> regUnlink(files, instancePath(port)).err # "none"]

\* unregisterInstance: unlinkSync inside try / catch {}.
unregisterInstance(files, port) ==
  [files |-> regUnlink(files, instancePath(port)).files, raised |-> FALSE]

\* getInstance: the parsed file, or null when reading or parsing throws.
getInstance(files, port) ==
  IF readThrows(files[instancePath(port)])
  THEN JsNull
  ELSE parse(files[instancePath(port)])

\* The file of the directory whose name does not end in ".json", and
\* file.endsWith(".json").
TxtFile == 0
FileNames == RegPorts \cup {TxtFile}

endsWithJson(name) == name # TxtFile

\* The files whose parsed value listInstances pushes: the files named *.json
\* that read and parse.
pushed(files) == {n \in FileNames : endsWithJson(n) /\ ~readThrows(files[n])}

\* results.sort((a, b) => a.port - b.port) of the values parsed from the
\* files N.
RECURSIVE sortByPort(_, _)
sortByPort(files, N) ==
  IF N = {} THEN <<>>
  ELSE LET m == CHOOSE x \in N :
                  \A y \in N : parse(files[x]).port <= parse(files[y]).port
       IN <<parse(files[m])>> \o sortByPort(files, N \ {m})

\* listInstances.  The comparator reads `.port` of both of its arguments: with
\* two or more values of which one is null it throws a TypeError, which
\* nothing catches; a single value is returned without any comparison.
listInstances(files) ==
  IF /\ Cardinality(pushed(files)) >= 2
     /\ \E n \in pushed(files) : parse(files[n]).type = "null"
  THEN [raised |-> TRUE, items |-> <<>>]
  ELSE [raised |-> FALSE, items |-> sortByPort(files, pushed(files))]

\* The for loop of cleanStaleInstances over the rest of `all`: every info
\* whose pid is not running is pushed to `stale` and unregistered.
RECURSIVE sweep(_, _, _)
sweep(files, all, stale) ==
  IF all = <<>> THEN [files |-> files, stale |-> stale]
  ELSE IF isProcessRunning(Head(all).pid)
       THEN sweep(files, Tail(all), stale)
       ELSE sweep(unregisterInstance(files, Head(all).port).files, Tail(all),
                  Append(stale, Head(all)))

\* cleanStaleInstances.  A TypeError of listInstances propagates; so does the
\* one of reading `.pid` of a null that listInstances returned.
cleanStaleInstances(files) ==
  LET all == listInstances(files)
  IN IF all.raised \/ \E k \in 1..Len(all.items) : all.items[k].type = "null"
     THEN [raised |-> TRUE, files |-> files, stale |-> <<>>]
     ELSE LET swept == sweep(files, all.items, <<>>)
          IN [raised |-> FALSE, files |-> swept.files, stale |-> swept.stale]

\* updateInstanceChromePid, first half: readFileSync and JSON.parse; setting
\* a property of null throws as well.
updateRead(files, port) ==
  IF readThrows(files[instancePath(port)])
  THEN [threw |-> TRUE, info |-> JsNull]
  ELSE IF parse(files[instancePath(port)]).type = "null"
       THEN [threw |-> TRUE, info |-> JsNull]
       ELSE [threw |-> FALSE, info |-> parse(files[instancePath(port)])]

updateWriteDropsLabel(files, port, info, chromePid) ==
  regWrite(files, instancePath(port),
           stringify([info EXCEPT !.chromePid = chromePid, !.label = ""]))

\* updateInstanceChromePid, second half: info.chromePid = chromePid and
\* writeFileSync of the whole record.
updateWrite(files, port, info, chromePid) ==
  regWrite(files, instancePath(port),
           stringify([info EXCEPT !.chromePid = chromePid]))

\* updateInstanceChromePid with nothing happening between its two halves;
\* the catch swallows whatever the try block throws.
updateInstanceChromePid(files, port, chromePid) ==
  IF updateRead(files, port).threw
  THEN [files |-> files, raised |-> FALSE]
  ELSE [files |-> updateWrite(files, port, updateRead(files, port).info, chromePid),
        raised |-> FALSE]

(***************************************************************************)
(* The calls of the registry.  In the first group every call runs from     *)
(* entry to return with no step of another process in between.             *)
(***************************************************************************)
regState == <<regDir, regFiles, lastReg, rop, returned>>
updVars == <<upc, uport, uinfo, rpc, rnames>>
stopVars == <<spc, sport, sinfo, strace, sresult>>

\* The latest call: its name, its port argument, whether it raised, and
\* whether it found a record under its port.
NoCall == [name |-> "none", port |-> 0, raised |-> FALSE, found |-> FALSE]
Call(name, port, raised, found) ==
  [name |-> name, port |-> port, raised |-> raised, found |-> found]

\* No updateInstanceChromePid, no listInstances and no stopInstance is running
\* step by step.
UpdIdle ==
  /\ upc = "idle"
  /\ uport = DefaultPort
  /\ uinfo = JsNull
  /\ rpc = "idle"
  /\ rnames = {}
StopIdle ==
  /\ spc = "idle"
  /\ sport = DefaultPort
  /\ sinfo = JsNull
  /\ strace = <<>>
  /\ sresult = [port |-> 0, success |-> FALSE, message |-> "none",
                server |-> "", chrome |-> ""]

\* What a file that no registerInstance wrote may hold: under a name *.json,
\* text that is not JSON or the JSON text `null`; under the other name, the
\* text of a record.
StrayFiles(n) ==
  IF n = TxtFile
  THEN {RegNoFile, stringify(InstanceInfo(1, DefaultPort, "launch", "profile", UndefinedNum))}
  ELSE {RegNoFile, RegCorruptFile, NullTextFile}

\* The registry before the calls: no directory, or a directory that holds
\* nothing or stray files; records are put there by registerInstance.  Every
\* server process is live.
RegInit ==
  /\ regDir \in BOOLEAN
  /\ regFiles \in (IF regDir
                   THEN {f \in [FileNames -> UNION {StrayFiles(n) : n \in FileNames}] :
                           \A n \in FileNames : f[n] \in StrayFiles(n)}
                   ELSE {[n \in FileNames |-> RegNoFile]})
  /\ lastReg = [p \in RegPorts |-> JsNull]
  /\ rop = NoCall
  /\ returned = <<>>
  /\ alive = ServerPids

\* The lock is not in use.
LockQuiet ==
  /\ dirExists = FALSE
  /\ lockFile = NoFile
  /\ lpc = [i \in Procs |-> "idle"]
  /\ existing = [i \in Procs |-> Null]
  /\ winner = [i \in Procs |-> Null]
  /\ lockData = [i \in Procs |-> Null]
  /\ lresult = [i \in Procs |-> NoResult]
  /\ atStart = [file |-> lockFile, live |-> {}]
  /\ wxTries = [i \in Procs |-> 0]
  /\ unlinks = [i \in Procs |-> 0]
  /\ removes = [i \in Procs |-> 0]

\* The registry is not in use.
RegIdle ==
  /\ regDir = FALSE
  /\ regFiles = [n \in FileNames |-> RegNoFile]
  /\ lastReg = [p \in RegPorts |-> JsNull]
  /\ rop = NoCall
  /\ returned = <<>>
  /\ UpdIdle
  /\ StopIdle

\* registerInstance(info): ensureDir, then writeFileSync of the JSON text.
RegisterInstance(info) ==
  /\ regDir' = TRUE
  /\ regFiles' = regWrite(regFiles, instancePath(info.port), stringify(info))
  /\ lastReg' = [lastReg EXCEPT ![info.port] = info]
  /\ rop' = Call("register", info.port, FALSE,
                 getInstance(regFiles, info.port).type = "object")
  /\ returned' = <<>>
  /\ UNCHANGED <<portVars, restVars, lockVars, updVars, stopVars>>

\* unregisterInstance(port)
UnregisterInstance(port) ==
  /\ regFiles' = unregisterInstance(regFiles, port).files
  /\ lastReg' = [lastReg EXCEPT ![port] = JsNull]
  /\ rop' = Call("unregister", port, unregisterInstance(regFiles, port).raised,
                 getInstance(regFiles, port).type = "object")
  /\ returned' = <<>>
  /\ UNCHANGED <<portVars, restVars, lockVars, updVars, stopVars, regDir>>

\* listInstances(): ensureDir, readdirSync, the loop over the files, the sort.
ListInstances ==
  LET all == listInstances(regFiles)
  IN /\ regDir' = TRUE
     /\ rop' = Call("list", 0, all.raised, FALSE)
     /\ returned' = all.items
     /\ UNCHANGED <<portVars, restVars, lockVars, updVars, stopVars, regFiles, lastReg>>

\* updateInstanceChromePid(port, chromePid)
UpdateInstanceChromePid(port, chromePid) ==
  /\ regFiles' = updateInstanceChromePid(regFiles, port, chromePid).files
  /\ rop' = Call("update", port,
                 updateInstanceChromePid(regFiles, port, chromePid).raised,
                 getInstance(regFiles, port).type = "object")
  /\ returned' = <<>>
  /\ UNCHANGED <<portVars, restVars, lockVars, updVars, stopVars, regDir, lastReg>>

\* cleanStaleInstances(): listInstances (with its ensureDir), then the sweep.
CleanStaleInstances ==
  LET swept == cleanStaleInstances(regFiles)
  IN /\ regDir' = TRUE
     /\ regFiles' = swept.files
     /\ lastReg' = [p \in RegPorts |->
                      IF swept.files[p] # regFiles[p] THEN JsNull ELSE lastReg[p]]
     /\ rop' = Call("cleanStale", 0, swept.raised, FALSE)
     /\ returned' = swept.stale
     /\ UNCHANGED <<portVars, restVars, lockVars, updVars, stopVars>>

\* A process ends.
Exit(p) ==
  /\ p \in alive
  /\ alive' = alive \ {p}
  /\ UNCHANGED <<portVars, restVars, lockRest, regVars>>

RegNext ==
  \/ \E info \in InstanceInfos : RegisterInstance(info)
  \/ \E port \in RegPorts : UnregisterInstance(port)
  \/ ListInstances
  \/ \E port \in RegPorts : UpdateInstanceChromePid(port, ChromePid)
  \/ CleanStaleInstances
  \/ \E p \in RegPids : Exit(p)

(***************************************************************************)
(* updateInstanceChromePid step by step, so that the calls of other        *)
(* processes fall between its read and its write.                          *)
(***************************************************************************)
\* entry, readFileSync, JSON.parse and the assignment to info.chromePid
UpdateRead(port) ==
  /\ upc = "idle"
  /\ uport' = port
  /\ uinfo' = updateRead(regFiles, port).info
  /\ upc' = IF updateRead(regFiles, port).threw THEN "done" ELSE "write"
  /\ UNCHANGED <<portVars, restVars, lockVars, regState, stopVars, rpc, rnames>>

\* writeFileSync of the patched record, and return
UpdateWrite ==
  /\ upc = "write"
  /\ regFiles' = updateWrite(regFiles, uport, uinfo, ChromePid)
  /\ rop' = Call("update", uport, FALSE, getInstance(regFiles, uport).type = "object")
  /\ returned' = <<>>
  /\ upc' = "done"
  /\ UNCHANGED <<portVars, restVars, lockVars, stopVars, regDir, lastReg, uport, uinfo,
                 rpc, rnames>>

\* listInstances step by step: ensureDir and readdirSync, which give the
\* names of the files that exist now
ListReaddir ==
  /\ rpc = "idle"
  /\ regDir' = TRUE
  /\ rnames' = {n \in FileNames : regFiles[n] # RegNoFile}
  /\ rpc' = "read"
  /\ UNCHANGED <<portVars, restVars, lockVars, stopVars, regFiles, lastReg, rop,
                 returned, upc, uport, uinfo>>

\* the loop over the names, the sort and the return: a name whose file is
\* gone by now makes readFileSync throw, and the catch skips it
ListRead ==
  /\ rpc = "read"
  /\ LET all == listInstances([n \in FileNames |->
                                 IF n \in rnames THEN regFiles[n] ELSE RegNoFile])
     IN /\ rop' = Call("list", 0, all.raised, FALSE)
        /\ returned' = all.items
  /\ rpc' = "idle"
  /\ rnames' = {}
  /\ UNCHANGED <<portVars, restVars, lockVars, stopVars, regDir, regFiles, lastReg,
                 upc, uport, uinfo>>

RegRaceNext ==
  \/ \E info \in InstanceInfos : RegisterInstance(info)
  \/ \E port \in RegPorts : UnregisterInstance(port)
  \/ \E port \in RegPorts : UpdateRead(port)
  \/ UpdateWrite
  \/ ListReaddir
  \/ ListRead

(***************************************************************************)
(* stopInstance(port), one step per system call or wait.  `strace` lists   *)
(* what the call did to processes and to the registry: the existence       *)
(* probes process.kill(pid, 0), the signals it sent, how each waitForExit  *)
(* ended, and the unregisterInstance.                                      *)
(***************************************************************************)
Probe(pid, live) == [ev |-> "probe", pid |-> pid, sig |-> "0", live |-> live]
Signal(pid, sig) == [ev |-> "signal", pid |-> pid, sig |-> sig, live |-> FALSE]
\* waitForExit(pid, ...) resolved: with true when its last probe found the
\* process gone, with false when the process was still running at the deadline.
PollEnd(pid, live) == [ev |-> "pollEnd", pid |-> pid, sig |-> "0", live |-> live]
Unregistered(port) == [ev |-> "unregister", pid |-> port, sig |-> "", live |-> FALSE]

\* StopResult; server and chrome are the two states the last message names.
StopResult(port, success, message, server, chrome) ==
  [port |-> port, success |-> success, message |-> message,
   server |-> server, chrome |-> chrome]
NoStopResult == StopResult(0, FALSE, "none", "", "")

stopNotRegisteredNever(info) == FALSE

\* `!info`
stopNotRegistered(info) == info.type = "null"

hasChromePidNever(info) == FALSE

\* `info.chromePid &&`: the chromePid is neither undefined nor 0
hasChromePid(info) == info.chromePid # UndefinedNum /\ info.chromePid # 0

escalatesAlways(serverExited) == TRUE

\* `if (!serverExited)`
escalates(serverExited) == ~serverExited

sendSignalRethrows(pid) ==
  [delivered |-> isProcessRunning(pid), raised |-> ~isProcessRunning(pid)]

\* sendSignal(pid, signal): process.kill delivers the signal to a live process
\* and throws for one that is gone; the catch turns the throw into `false`.
sendSignal(pid) ==
  [delivered |-> isProcessRunning(pid), raised |-> FALSE]

stoppedFullyServerOnly(serverGone, chromeGone) == serverGone

\* `if (serverGone && chromeGone)`
stoppedFully(serverGone, chromeGone) == serverGone /\ chromeGone

\* A sendSignal call of stopInstance; an error that sendSignal let through
\* would end the call.
StopSend(pid, sig, nextPc) ==
  /\ strace' = Append(strace, Signal(pid, sig))
  /\ spc' = IF sendSignal(pid).raised THEN "raised" ELSE nextPc
  /\ UNCHANGED <<portVars, restVars, lockVars, regState, updVars, sport, sinfo, sresult>>

\* The registry when stopInstance is called: under each name no file, a stray
\* file, or the record of a server with or without the pid of its browser;
\* any of the processes may be gone.
StopInit ==
  /\ regDir = TRUE
  /\ regFiles \in {f \in [FileNames -> UNION {StrayFiles(n) : n \in FileNames}
                                        \cup {stringify(i) : i \in InstanceInfos}
                                        \cup {stringify([i EXCEPT !.chromePid = ChromePid]) :
                                                i \in InstanceInfos}] :
                     /\ f[TxtFile] = RegNoFile
                     /\ \A p \in RegPorts :
                          \/ f[p] \in StrayFiles(p)
                          \/ f[p].kind = "json" /\ f[p].value.port = p}
  /\ lastReg = [p \in RegPorts |-> getInstance(regFiles, p)]
  /\ rop = NoCall
  /\ returned = <<>>
  /\ alive \in SUBSET RegPids

\* entry and getInstance(port)
StopCall(port) ==
  /\ spc = "idle"
  /\ sport' = port
  /\ sinfo' = getInstance(regFiles, port)
  /\ IF stopNotRegistered(getInstance(regFiles, port))
     THEN /\ sresult' = StopResult(port, FALSE, "No instance registered", "", "")
          /\ spc' = "done"
     ELSE /\ spc' = "probeServer"
          /\ UNCHANGED sresult
  /\ UNCHANGED <<portVars, restVars, lockVars, regState, updVars, strace>>

\* isProcessRunning(info.pid)
StopProbeServer ==
  /\ spc = "probeServer"
  /\ strace' = Append(strace, Probe(sinfo.pid, isProcessRunning(sinfo.pid)))
  /\ spc' = IF isProcessRunning(sinfo.pid) THEN "sigterm" ELSE "deadProbeChrome"
  /\ UNCHANGED <<portVars, restVars, lockVars, regState, updVars, sport, sinfo, sresult>>

\* the server is dead: info.chromePid && isProcessRunning(info.chromePid)
StopDeadProbeChrome ==
  /\ spc = "deadProbeChrome"
  /\ IF hasChromePid(sinfo)
     THEN /\ strace' = Append(strace, Probe(sinfo.chromePid,
                                            isProcessRunning(sinfo.chromePid)))
          /\ spc' = IF isProcessRunning(sinfo.chromePid)
                    THEN "deadKillChrome" ELSE "deadUnregister"
     ELSE /\ spc' = "deadUnregister"
          /\ UNCHANGED strace
  /\ UNCHANGED <<portVars, restVars, lockVars, regState, updVars, sport, sinfo, sresult>>

\* sendSignal(info.chromePid, "SIGKILL")
StopDeadKillChrome ==
  /\ spc = "deadKillChrome"
  /\ StopSend(sinfo.chromePid, "SIGKILL", "deadUnregister")

\* unregisterInstance(port) and the return of the "already stopped" result
StopDeadUnregister ==
  /\ spc = "deadUnregister"
  /\ regFiles' = unregisterInstance(regFiles, sport).files
  /\ lastReg' = [lastReg EXCEPT ![sport] = JsNull]
  /\ strace' = Append(strace, Unregistered(sport))
  /\ sresult' = StopResult(sport, TRUE, "was already stopped (cleaned registry)", "", "")
  /\ spc' = "done"
  /\ UNCHANGED <<portVars, restVars, lockVars, updVars, regDir, rop, returned, sport, sinfo>>

\* sendSignal(info.pid, "SIGTERM")
StopSigterm ==
  /\ spc = "sigterm"
  /\ StopSend(sinfo.pid, "SIGTERM", "waitServer")

\* waitForExit(pid, timeoutMs) resolves: a probe finds the process gone, or
\* the deadline has passed with the process still running.
WaitForExit(pid, nextPc) ==
  /\ strace' = Append(strace, PollEnd(pid, isProcessRunning(pid)))
  /\ spc' = nextPc
  /\ UNCHANGED <<portVars, restVars, lockVars, regState, updVars, sport, sinfo, sresult>>

\* serverExited = await waitForExit(info.pid, 5000); if (!serverExited)
StopWaitServer ==
  /\ spc = "waitServer"
  /\ LET serverExited == ~isProcessRunning(sinfo.pid)
     IN WaitForExit(sinfo.pid, IF escalates(serverExited) THEN "sigkill"
                                                          ELSE "probeChrome")

\* sendSignal(info.pid, "SIGKILL")
StopSigkill ==
  /\ spc = "sigkill"
  /\ StopSend(sinfo.pid, "SIGKILL", "waitKilled")

\* await waitForExit(info.pid, 2000)
StopWaitKilled ==
  /\ spc = "waitKilled"
  /\ WaitForExit(sinfo.pid, "probeChrome")

\* info.chromePid && isProcessRunning(info.chromePid)
StopProbeChrome ==
  /\ spc = "probeChrome"
  /\ IF hasChromePid(sinfo)
     THEN /\ strace' = Append(strace, Probe(sinfo.chromePid,
                                            isProcessRunning(sinfo.chromePid)))
          /\ spc' = IF isProcessRunning(sinfo.chromePid)
                    THEN "killChrome" ELSE "unregister"
     ELSE /\ spc' = "unregister"
          /\ UNCHANGED strace
  /\ UNCHANGED <<portVars, restVars, lockVars, regState, updVars, sport, sinfo, sresult>>

\* sendSignal(info.chromePid, "SIGKILL")
StopKillChrome ==
  /\ spc = "killChrome"
  /\ StopSend(sinfo.chromePid, "SIGKILL", "waitChrome")

\* await waitForExit(info.chromePid, 2000)
StopWaitChrome ==
  /\ spc = "waitChrome"
  /\ WaitForExit(sinfo.chromePid, "unregister")

\* unregisterInstance(port)
StopUnregister ==
  /\ spc = "unregister"
  /\ regFiles' = unregisterInstance(regFiles, sport).files
  /\ lastReg' = [lastReg EXCEPT ![sport] = JsNull]
  /\ strace' = Append(strace, Unregistered(sport))
  /\ spc' = "report"
  /\ UNCHANGED <<portVars, restVars, lockVars, updVars, regDir, rop, returned, sport, sinfo,
                 sresult>>

\* serverGone, chromeGone (the final probes) and the return of the result
StopReport ==
  /\ spc = "report"
  /\ LET serverGone == ~isProcessRunning(sinfo.pid)
         chromeGone == ~hasChromePid(sinfo) \/ ~isProcessRunning(sinfo.chromePid)
     IN /\ sresult' = IF stoppedFully(serverGone, chromeGone)
                      THEN StopResult(sport, TRUE, "stopped successfully", "", "")
                      ELSE StopResult(sport, FALSE, "may not have fully stopped",
                                      IF serverGone THEN "stopped" ELSE "running",
                                      IF chromeGone THEN "stopped" ELSE "running")
        /\ strace' = strace \o <<Probe(sinfo.pid, ~serverGone)>>
                        \o (IF hasChromePid(sinfo)
                            THEN <<Probe(sinfo.chromePid,
                                         isProcessRunning(sinfo.chromePid))>>
                            ELSE <<>>)
  /\ spc' = "done"
  /\ UNCHANGED <<portVars, restVars, lockVars, regState, updVars, sport, sinfo>>

\* The steps of a stopInstance call after its entry.
StopSteps ==
  \/ StopProbeServer
  \/ StopDeadProbeChrome
  \/ StopDeadKillChrome
  \/ StopDeadUnregister
  \/ StopSigterm
  \/ StopWaitServer
  \/ StopSigkill
  \/ StopWaitKilled
  \/ StopProbeChrome
  \/ StopKillChrome
  \/ StopWaitChrome
  \/ StopUnregister
  \/ StopReport

StopNext ==
  \/ \E port \in RegPorts : StopCall(port)
  \/ StopSteps
  \/ \E p \in RegPids : Exit(p)

(***************************************************************************)
(* stopAllInstances(), one step per registry call and per stale record;    *)
(* its stopInstance calls are the steps of stopInstance above, one call at *)
(* a time.  `atrace` lists the probes and signals of the loop over the     *)
(* stale records, followed by the trace of each finished stopInstance.     *)
(***************************************************************************)
\* The server that listens on a port: every server has its own port.
pidOf(port) == (((port - DefaultPort) \div 2) % NumServers) + 1

\* What the registry holds under <port>.json before a stop-all or a cleanup:
\* nothing, a stray file, or the record of the port's server without or with
\* the pid of its browser.
OwnFiles(port) ==
  {RegNoFile, NullTextFile,
   stringify(InstanceInfo(pidOf(port), port, "launch", "profile", UndefinedNum)),
   stringify(InstanceInfo(pidOf(port), port, "launch", "profile", ChromePid))}

OwnRegistries ==
  {f \in [FileNames -> UNION {OwnFiles(p) : p \in RegPorts}] :
     /\ f[TxtFile] = RegNoFile
     /\ \A p \in RegPorts : f[p] \in OwnFiles(p)}

\* The registry and the process table when stopAllInstances is called.
AllInit ==
  /\ regDir = TRUE
  /\ regFiles \in OwnRegistries
  /\ lastReg = [p \in RegPorts |-> getInstance(regFiles, p)]
  /\ rop = NoCall
  /\ returned = <<>>
  /\ alive \in SUBSET RegPids
  /\ apc = "idle"
  /\ aqueue = <<>>
  /\ aresults = <<>>
  /\ atrace = <<>>
  /\ aStart = [files |-> regFiles, live |-> alive]

killsStaleChildNever(s) == FALSE

\* `s.chromePid && isProcessRunning(s.chromePid)`
killsStaleChild(s) == hasChromePid(s) /\ isProcessRunning(s.chromePid)

\* The result pushed for a stale record.
staleResult(s) == StopResult(s.port, TRUE, "Stale instance cleaned", "", "")

\* entry and cleanStaleInstances()
AllCall ==
  /\ apc = "idle"
  /\ LET swept == cleanStaleInstances(regFiles)
     IN IF swept.raised
        THEN /\ apc' = "raised"
             /\ UNCHANGED <<regFiles, lastReg, aqueue>>
        ELSE /\ apc' = "stale"
             /\ regFiles' = swept.files
             /\ lastReg' = [p \in RegPorts |->
                              IF swept.files[p] # regFiles[p] THEN JsNull ELSE lastReg[p]]
             /\ aqueue' = swept.stale
  /\ UNCHANGED <<lockVars, portVars, regDir, rop, returned, updVars, stopVars,
                 aresults, atrace, aStart, orphVars, uptimeVars>>

\* one turn of `for (const s of stale)`: the probe of the browser, the
\* SIGKILL if it is running, results.push
AllStale ==
  /\ apc = "stale"
  /\ aqueue # <<>>
  /\ LET s == Head(aqueue)
     IN /\ atrace' = atrace
                       \o (IF hasChromePid(s)
                           THEN <<Probe(s.chromePid, isProcessRunning(s.chromePid))>>
                           ELSE <<>>)
                       \o (IF killsStaleChild(s)
                           THEN <<Signal(s.chromePid, "SIGKILL")>>
                           ELSE <<>>)
        /\ apc' = IF killsStaleChild(s) /\ sendSignal(s.chromePid).raised
                  THEN "raised" ELSE "stale"
        /\ aresults' = Append(aresults, staleResult(s))
  /\ aqueue' = Tail(aqueue)
  /\ UNCHANGED <<lockVars, portVars, regVars, aStart, orphVars, uptimeVars>>

\* liveInstances = listInstances()
AllList ==
  /\ apc = "stale"
  /\ aqueue = <<>>
  /\ LET all == listInstances(regFiles)
     IN IF all.raised
        THEN /\ apc' = "raised"
             /\ UNCHANGED aqueue
        ELSE /\ apc' = "stopping"
             /\ aqueue' = all.items
  /\ UNCHANGED <<lockVars, portVars, regVars, aresults, atrace, aStart, orphVars,
                 uptimeVars>>

\* one turn of `for (const info of liveInstances)`: stopInstance(info.port) is
\* called; reading the port of an entry that is null throws
AllStop ==
  /\ apc = "stopping"
  /\ aqueue # <<>>
  /\ IF Head(aqueue).type = "object"
     THEN StopCall(Head(aqueue).port)
     ELSE /\ spc = "idle"
          /\ apc' = "raised"
          /\ UNCHANGED <<lockVars, portVars, regVars, aqueue, aresults, atrace, aStart,
                         orphVars, uptimeVars>>

\* the awaited stopInstance returned: results.push(result)
AllPush ==
  /\ apc = "stopping"
  /\ spc = "done"
  /\ aresults' = Append(aresults, sresult)
  /\ atrace' = atrace \o strace
  /\ aqueue' = Tail(aqueue)
  /\ spc' = "idle"
  /\ sport' = DefaultPort
  /\ sinfo' = JsNull
  /\ strace' = <<>>
  /\ sresult' = NoStopResult
  /\ UNCHANGED <<lockVars, portVars, regState, updVars, apc, aStart, orphVars,
                 uptimeVars>>

\* return results
AllReturn ==
  /\ apc = "stopping"
  /\ aqueue = <<>>
  /\ spc = "idle"
  /\ apc' = "done"
  /\ UNCHANGED <<lockVars, portVars, regVars, aqueue, aresults, atrace, aStart,
                 orphVars, uptimeVars>>

AllNext ==
  \/ AllCall
  \/ AllStale
  \/ AllList
  \/ AllStop
  \/ AllPush
  \/ AllReturn
  \/ StopSteps
  \/ \E p \in RegPids : Exit(p)

(***************************************************************************)
(* cleanOrphanedChrome(), one step per registry call, per stale record,    *)
(* for the process scan and per pid of the scan.  `otrace` lists the       *)
(* SIGKILLs the call sent, each with the step that sent it and with        *)
(* whether the signal reached a process.                                   *)
(***************************************************************************)
\* A browser that no record names, and the process that calls.
OrphanPid == NumServers + 2
CallerPid == NumServers + 3
\* The processes whose command line may hold the marker of the scan.
ScanPids == RegPids \cup {OrphanPid, CallerPid}

Kill(pid, step, delivered) ==
  [ev |-> "kill", pid |-> pid, step |-> step, delivered |-> delivered]

\* What execSync("pgrep -f 'remote-debugging-port'") gives: it throws (pgrep
\* ends with code 1 when nothing matches, or cannot be run), it returns an
\* empty text, or it returns the pids of the live processes that match.
NoScan == [kind |-> "none", pids |-> {}]
ScanFailed == [kind |-> "fail", pids |-> {}]
ScanEmpty == [kind |-> "empty", pids |-> {}]
ScanMatched(pids) == [kind |-> "pids", pids |-> pids]

afterScanRethrows(scan) ==
  IF scan.kind = "fail" THEN "raised" ELSE IF scan.kind = "empty" THEN "done" ELSE "scan"

\* Where the call goes after the scan: the catch swallows the error and the
\* call returns, `if (!pgrepOutput) return cleaned`, or the loop over the pids.
afterScan(scan) ==
  IF scan.kind = "fail" THEN "done" ELSE IF scan.kind = "empty" THEN "done" ELSE "scan"

sparesChildrenOnly(pid, chromes, servers) == pid \in chromes

\* the three `continue` of the loop over the pids of the scan
spares(pid, chromes, servers) ==
  pid \in chromes \/ pid \in servers \/ pid = CallerPid

\* The least of a set of pids: pgrep prints the pids in increasing order.
MinPid(pids) == CHOOSE q \in pids : \A r \in pids : q <= r

\* The registry and the process table when cleanOrphanedChrome is called; the
\* caller is live.
OrphInit ==
  /\ regDir = TRUE
  /\ regFiles \in OwnRegistries
  /\ lastReg = [p \in RegPorts |-> getInstance(regFiles, p)]
  /\ rop = NoCall
  /\ returned = <<>>
  /\ alive \in {a \in SUBSET ScanPids : CallerPid \in a}
  /\ opc = "idle"
  /\ oqueue = <<>>
  /\ chromePids = {}
  /\ liveChromePids = {}
  /\ liveServerPids = {}
  /\ cleaned = 0
  /\ otrace = <<>>
  /\ oscan = NoScan
  /\ oStart = [files |-> regFiles, live |-> alive]

\* entry and cleanStaleInstances()
OrphCall ==
  /\ opc = "idle"
  /\ oStart' = [files |-> regFiles, live |-> alive]
  /\ LET swept == cleanStaleInstances(regFiles)
     IN IF swept.raised
        THEN /\ opc' = "raised"
             /\ UNCHANGED <<regFiles, lastReg, oqueue>>
        ELSE /\ opc' = "stale"
             /\ regFiles' = swept.files
             /\ lastReg' = [p \in RegPorts |->
                              IF swept.files[p] # regFiles[p] THEN JsNull ELSE lastReg[p]]
             /\ oqueue' = swept.stale
  /\ UNCHANGED <<lockVars, portVars, regDir, rop, returned, updVars, stopVars,
                 allVars, uptimeVars, chromePids, liveChromePids, liveServerPids,
                 cleaned, otrace, oscan>>

\* one turn of `for (const info of stale)`: the probe of the browser and, if
\* it is running, the SIGKILL and cleaned++
OrphStale ==
  /\ opc = "stale"
  /\ oqueue # <<>>
  /\ LET info == Head(oqueue)
     IN IF killsStaleChild(info)
        THEN /\ otrace' = Append(otrace, Kill(info.chromePid, "stale",
                                              sendSignal(info.chromePid).delivered))
             /\ cleaned' = cleaned + 1
             /\ opc' = IF sendSignal(info.chromePid).raised THEN "raised" ELSE "stale"
        ELSE UNCHANGED <<otrace, cleaned, opc>>
  /\ oqueue' = Tail(oqueue)
  /\ UNCHANGED <<lockVars, portVars, regVars, allVars, uptimeVars, chromePids,
                 liveChromePids, liveServerPids, oscan, oStart>>

\* execSync of pgrep, the split of its output, listInstances() and the two
\* sets; an error thrown in any of them is caught and the call returns
OrphScan(scan) ==
  /\ opc = "stale"
  /\ oqueue = <<>>
  /\ oscan' = scan
  /\ LET liveInstances == listInstances(regFiles)
         items == liveInstances.items
         threw == liveInstances.raised
                    \/ \E k \in 1..Len(items) : items[k].type = "null"
     IN IF afterScan(scan) = "scan" /\ ~threw
        THEN /\ chromePids' = scan.pids
             /\ liveChromePids' = {items[k].chromePid :
                                     k \in {j \in 1..Len(items) : hasChromePid(items[j])}}
             /\ liveServerPids' = {items[k].pid : k \in 1..Len(items)}
             /\ opc' = "scan"
        ELSE /\ opc' = IF afterScan(scan) = "scan" THEN "done" ELSE afterScan(scan)
             /\ UNCHANGED <<chromePids, liveChromePids, liveServerPids>>
  /\ UNCHANGED <<lockVars, portVars, regVars, allVars, uptimeVars, oqueue, cleaned,
                 otrace, oStart>>

\* one turn of `for (const chromePid of chromePids)`
OrphKill ==
  /\ opc = "scan"
  /\ chromePids # {}
  /\ LET chromePid == MinPid(chromePids)
     IN /\ chromePids' = chromePids \ {chromePid}
        /\ IF spares(chromePid, liveChromePids, liveServerPids)
           THEN UNCHANGED <<otrace, cleaned, opc>>
           ELSE /\ otrace' = Append(otrace, Kill(chromePid, "scan",
                                                 sendSignal(chromePid).delivered))
                /\ cleaned' = cleaned + 1
                /\ opc' = IF sendSignal(chromePid).raised THEN "done" ELSE "scan"
  /\ UNCHANGED <<lockVars, portVars, regVars, allVars, uptimeVars, oqueue,
                 liveChromePids, liveServerPids, oscan, oStart>>

\* return cleaned
OrphReturn ==
  /\ opc = "scan"
  /\ chromePids = {}
  /\ opc' = "done"
  /\ UNCHANGED <<lockVars, portVars, regVars, allVars, uptimeVars, oqueue, chromePids,
                 liveChromePids, liveServerPids, cleaned, otrace, oscan, oStart>>

\* A browser ends while the cleanup runs (a server that is to be gone during
\* the call is gone from its start).
OrphExit(p) ==
  /\ opc # "done"
  /\ Exit(p)

OrphNext ==
  \/ OrphCall
  \/ OrphStale
  \/ \E scan \in {ScanFailed, ScanEmpty} : OrphScan(scan)
  \/ \E pids \in SUBSET (alive \cap ScanPids) : pids # {} /\ OrphScan(ScanMatched(pids))
  \/ OrphKill
  \/ OrphReturn
  \/ \E p \in {ChromePid, OrphanPid} : OrphExit(p)

(***************************************************************************)
(* formatUptime(startedAt): the time since startedAt as a short text.  A    *)
(* text is modelled by its parts: up to two numbers, each with its unit.   *)
(***************************************************************************)
\* `${n1}${unit1}` when unit2 is "", else `${n1}${unit1} ${n2}${unit2}`
UptimeText(n1, unit1, n2, unit2) ==
  [n1 |-> n1, unit1 |-> unit1, n2 |-> n2, unit2 |-> unit2]
NoUptime == UptimeText(0, "", 0, "")

\* Date.now(), in milliseconds
NowMs == MaxDays * 86400000 + 86400000

formatUptimeCeil(start, now) ==
  LET diffMs == now - start
      seconds == (diffMs + 999) \div 1000
      minutes == (seconds + 59) \div 60
      hours == (minutes + 59) \div 60
      days == (hours + 23) \div 24
  IN IF diffMs < 0 THEN UptimeText(0, "s", 0, "")
     ELSE IF days > 0 THEN UptimeText(days, "d", hours % 24, "h")
     ELSE IF hours > 0 THEN UptimeText(hours, "h", minutes % 60, "m")
     ELSE IF minutes > 0 THEN UptimeText(minutes, "m", 0, "")
     ELSE UptimeText(seconds, "s", 0, "")

\* formatUptime, with `start` for new Date(startedAt).getTime() and `now` for
\* Date.now(); Math.floor of a quotient of non-negative numbers is \div.
formatUptime(start, now) ==
  LET diffMs == now - start
      seconds == diffMs \div 1000
      minutes == seconds \div 60
      hours == minutes \div 60
      days == hours \div 24
  IN IF diffMs < 0 THEN UptimeText(0, "s", 0, "")
     ELSE IF days > 0 THEN UptimeText(days, "d", hours % 24, "h")
     ELSE IF hours > 0 THEN UptimeText(hours, "h", minutes % 60, "m")
     ELSE IF minutes > 0 THEN UptimeText(minutes, "m", 0, "")
     ELSE UptimeText(seconds, "s", 0, "")

\* The elapsed times tried, in milliseconds: around zero, around each change
\* of unit and of form, and the examples of the documentation.
UptimeMarks ==
  {0, 1000, 59000, 60000, 90000, 3599000, 3600000, 3660000, 8100000,
   86399000, 86400000, 90000000, 97200000}
    \cup {d * 86400000 : d \in 1..MaxDays}
    \cup {d * 86400000 + 23 * 3600000 + 59 * 60000 : d \in 1..MaxDays}
UptimeSkews == {k * 500 : k \in (0 - MaxSkew)..MaxSkew}

\* No formatUptime call.
UptimeIdle ==
  /\ uptimeStart = 0
  /\ uptime = NoUptime

\* The argument of the call: a start time before or after now.
UptimeInit ==
  /\ uptimeStart \in {NowMs - (m + k) : m \in UptimeMarks, k \in UptimeSkews}
  /\ uptime = NoUptime

\* formatUptime(startedAt)
FormatUptime ==
  /\ uptime = NoUptime
  /\ uptime' = formatUptime(uptimeStart, NowMs)
  /\ UNCHANGED <<lockVars, portVars, regVars, allVars, orphVars, uptimeStart>>

UptimeNext == FormatUptime

\* No stopAllInstances call and no cleanOrphanedChrome call.
AllIdle ==
  /\ apc = "idle"
  /\ aqueue = <<>>
  /\ aresults = <<>>
  /\ atrace = <<>>
  /\ aStart = [files |-> <<>>, live |-> {}]
OrphIdle ==
  /\ opc = "idle"
  /\ oqueue = <<>>
  /\ chromePids = <<>>
  /\ liveChromePids = {}
  /\ liveServerPids = {}
  /\ cleaned = 0
  /\ otrace = <<>>
  /\ oscan = NoScan
  /\ oStart = [files |-> <<>>, live |-> {}]
RestIdle == AllIdle /\ OrphIdle /\ UptimeIdle

(***************************************************************************)
(* Specifications: one per scenario (the lock alone, the allocator with    *)
(* one caller and with concurrent callers, the registry's calls, each call *)
(* of the lifecycle controller), and all of them.                          *)
(***************************************************************************)
InitLock == LockInit /\ PortIdle /\ RegIdle /\ RestIdle
SpecLock == InitLock /\ [][LockNext]_vars

InitPort == LockIdle /\ PortInit /\ RegIdle /\ RestIdle
SpecPort == InitPort /\ [][PortNext]_vars

InitPortRace == LockIdle /\ PortRaceInit /\ RegIdle /\ RestIdle

InitRegistry == LockQuiet /\ PortIdle /\ RegInit /\ UpdIdle /\ StopIdle /\ RestIdle
SpecRegistry == InitRegistry /\ [][RegNext]_vars

InitRegistryRace == LockQuiet /\ PortIdle /\ RegInit /\ UpdIdle /\ StopIdle /\ RestIdle
SpecRegistryRace == InitRegistryRace /\ [][RegRaceNext]_vars

InitStop == LockQuiet /\ PortIdle /\ StopInit /\ UpdIdle /\ StopIdle /\ RestIdle
SpecStop == InitStop /\ [][StopNext]_vars

\* stopInstance with one record at most, under the fairness of the event loop:
\* a step of the call that can be taken (a system call, the resolution of a
\* wait at its deadline) is taken.
StopLiveInit ==
  /\ StopInit
  /\ \A p \in RegPorts \ {DefaultPort} : regFiles[p] = RegNoFile
InitStopLive == LockQuiet /\ PortIdle /\ StopLiveInit /\ UpdIdle /\ StopIdle /\ RestIdle
SpecStopLive == InitStopLive /\ [][StopNext]_vars /\ WF_vars(StopSteps)

\* stopInstance while the instances start: between two steps of the call, a
\* live server other than the record's owner registers the port being stopped.
RegisterNewer(info) ==
  /\ spc \notin {"idle", "done", "raised"}
  /\ info.port = sport
  /\ info.pid # sinfo.pid
  /\ isProcessRunning(info.pid)
  /\ RegisterInstance(info)

StopRaceNext ==
  \/ StopNext
  \/ \E info \in InstanceInfos : RegisterNewer(info)

InitStopRace == LockQuiet /\ PortIdle /\ StopLiveInit /\ UpdIdle /\ StopIdle /\ RestIdle
SpecStopRace == InitStopRace /\ [][StopRaceNext]_vars

InitStopAll == LockQuiet /\ PortIdle /\ AllInit /\ UpdIdle /\ StopIdle /\ OrphIdle /\ UptimeIdle
SpecStopAll == InitStopAll /\ [][AllNext]_vars

InitOrphans == LockQuiet /\ PortIdle /\ OrphInit /\ UpdIdle /\ StopIdle /\ AllIdle /\ UptimeIdle
SpecOrphans == InitOrphans /\ [][OrphNext]_vars

\* cleanOrphanedChrome while an instance starts.  The starting instance is the
\* server of the default port; it has spawned its browser, whose pid no
\* record holds until the server has called updateInstanceChromePid.
StarterPid == pidOf(DefaultPort)
StarterInfo == InstanceInfo(StarterPid, DefaultPort, "launch", "profile", UndefinedNum)

OrphRaceInit ==
  /\ OrphInit
  /\ regFiles[DefaultPort] \in {RegNoFile, stringify(StarterInfo)}
  /\ \A p \in RegPorts : ~hasChromePid(getInstance(regFiles, p))
  /\ {StarterPid, ChromePid} \subseteq alive

\* the starting server registers itself
StartRegister ==
  /\ regFiles[DefaultPort] = RegNoFile
  /\ RegisterInstance(StarterInfo)

\* the starting server records the pid of the browser it spawned
StartUpdate ==
  /\ getInstance(regFiles, DefaultPort) = StarterInfo
  /\ UpdateInstanceChromePid(DefaultPort, ChromePid)

OrphRaceNext ==
  \/ OrphNext
  \/ StartRegister
  \/ StartUpdate

InitOrphanRace == LockQuiet /\ PortIdle /\ OrphRaceInit /\ UpdIdle /\ StopIdle /\ AllIdle /\ UptimeIdle
SpecOrphanRace == InitOrphanRace /\ [][OrphRaceNext]_vars

\* The calls that write and delete records, stopInstance among them, from a
\* registry that no call has used yet: two instances, each server registering
\* its own port.
KeyPorts == {port \in RegPorts : port <= DefaultPort + 2}
OwnInfos ==
  {InstanceInfo(pidOf(port), port, "launch", "profile", UndefinedNum) : port \in KeyPorts}

KeysNext ==
  \/ \E info \in OwnInfos : RegisterInstance(info)
  \/ \E port \in KeyPorts : UpdateInstanceChromePid(port, ChromePid)
  \/ \E port \in KeyPorts : UnregisterInstance(port)
  \/ CleanStaleInstances
  \/ StopNext

KeysInit ==
  /\ regDir = FALSE
  /\ regFiles = [n \in FileNames |-> RegNoFile]
  /\ lastReg = [p \in RegPorts |-> JsNull]
  /\ rop = NoCall
  /\ returned = <<>>
  /\ alive = RegPids

InitKeys == LockQuiet /\ PortIdle /\ KeysInit /\ UpdIdle /\ StopIdle /\ RestIdle
SpecKeys == InitKeys /\ [][KeysNext]_vars

InitUptime == LockIdle /\ PortIdle /\ RegIdle /\ AllIdle /\ OrphIdle /\ UptimeInit
SpecUptime == InitUptime /\ [][UptimeNext]_vars
SpecPortRace == InitPortRace /\ [][PortNext]_vars

Init ==
  \/ InitLock \/ InitPort \/ InitPortRace \/ InitRegistry \/ InitRegistryRace
  \/ InitStop \/ InitStopLive \/ InitUptime \/ InitStopAll \/ InitOrphans
  \/ InitStopRace \/ InitOrphanRace \/ InitKeys

Next ==
  \/ LockNext \/ PortNext \/ RegNext \/ RegRaceNext \/ StopNext \/ UptimeNext
  \/ AllNext \/ OrphNext \/ StopRaceNext \/ OrphRaceNext \/ KeysNext

Spec == Init /\ [][Next]_vars

(***************************************************************************)
(* Properties of the profile lock.                                         *)
(***************************************************************************)
\* Process i returned from acquireProfileLock, has not released, and is live.
Holds(i) ==
  /\ lpc[i] = "done"
  /\ lresult[i] = Returned
  /\ removes[i] = 0
  /\ i \in alive

\* No other process has called acquireProfileLock: i's call is uncontended.
OthersIdle(i) == \A j \in Procs \ {i} : lpc[j] = "idle"

\* C1: mutual exclusion - two calls of acquireProfileLock on the directory
\* never both return successfully while the first successful caller is live
\* (and has not released the lock).
C1_MutualExclusion ==
  \A i, j \in Procs : (Holds(i) /\ Holds(j)) => i = j

\* C3: when the call reads a well-formed lock record whose pid is a live
\* process, it ends with the conflict error that carries that holder's pid,
\* port and acquisition time, and it has written and deleted nothing; the lock
\* file of an uncontended call is the one it found (same pid, port, startedAt).
C3_LiveHolderConflict ==
  \A i \in Procs :
    /\ (lpc[i] = "done" /\ existing[i] # Null /\ existing[i].pid \in alive)
         => /\ lresult[i] = LockedError(existing[i])
            /\ lresult[i].startedAt = existing[i].startedAt
            /\ wxTries[i] = 0
            /\ unlinks[i] = 0
    /\ (/\ lpc[i] = "done"
        /\ OthersIdle(i)
        /\ atStart.file.kind = "record"
        /\ atStart.file.pid \in alive)
         => /\ lresult[i] = LockedError(atStart.file)
            /\ lockFile = atStart.file

C3_Witness ==
  \E i \in Procs :
    /\ lpc[i] = "done"
    /\ OthersIdle(i)
    /\ atStart.file.kind = "record"
    /\ atStart.file.pid \in alive
    /\ lresult[i].kind = "locked"
    /\ lresult[i].port # portOf(i)
    /\ lockFile = atStart.file

\* C4: a single uncontended call on a directory that is missing, has no lock
\* file, or has a lock whose recorded pid is not live returns successfully;
\* afterwards the directory exists and the lock record has the caller's pid
\* and the given port (a stale record is replaced).
C4_UncontendedAcquire ==
  \A i \in Procs :
    (/\ lpc[i] = "done"
     /\ OthersIdle(i)
     /\ removes[i] = 0
     /\ \/ atStart.file.kind = "absent"
        \/ atStart.file.kind = "record" /\ atStart.file.pid \notin atStart.live)
      => /\ lresult[i] = Returned
         /\ dirExists
         /\ lockFile.kind = "record"
         /\ lockFile.pid = i
         /\ lockFile.port = portOf(i)

C4_Witness ==
  \E i \in Procs :
    /\ lpc[i] = "done"
    /\ OthersIdle(i)
    /\ atStart.file.kind = "record"
    /\ atStart.file.pid \notin atStart.live
    /\ lresult[i] = Returned
    /\ lockFile = LockInfo(i, portOf(i), Now)

\* C5: a call makes at most two exclusive-create attempts; a first attempt
\* that loses to a live winner ends with a conflict error; after a dead winner
\* the file is deleted and the write retried exactly once; and a call whose
\* second attempt fails ends with a lock-conflict error, not with a raw
\* filesystem error.
C5_BoundedRetry ==
  \A i \in Procs :
    /\ wxTries[i] <= 2
    /\ unlinks[i] <= 2
    /\ (lpc[i] = "done" /\ lresult[i].kind = "justLocked")
         => (wxTries[i] = 1 /\ winner[i] # Null)
    /\ lpc[i] = "write2" => wxTries[i] = 1
    /\ (lpc[i] = "done" /\ wxTries[i] = 2 /\ lresult[i] # Returned)
         => lresult[i].kind \in {"locked", "justLocked"}

\* C6: removeLock never raises and is idempotent - with or without a lock
\* file, any number of times, it returns normally and readLock is null right
\* after it; so acquireProfileLock followed by removeLock leaves no lock.
C6_RemoveLockIdempotent ==
  [][\A i \in Procs :
       (RemoveLock(i) \/ RemoveStale(i) \/ RemoveLost(i))
         => (readLock(lockFile)' = Null /\ lpc'[i] # "raised")]_vars

C6_Witness ==
  \E i \in Procs :
    /\ lpc[i] = "done"
    /\ lresult[i] = Returned
    /\ removes[i] = 2
    /\ lockFile = NoFile

(***************************************************************************)
(* Properties of the port allocator.                                       *)
(***************************************************************************)
\* A valid port no other program listens on.
Free(q) == q <= MaxPortNumber /\ ~ExternalInUse(q)
PairFree(c) == Free(c) /\ Free(c + 1)
PortDone(i) == ppc[i] = "done"

\* Every k whose pair is free lies below this limit: past the window the ports
\* are in use up to tailEnd, which is at most requestedPort + 2 * maxAttempts
\* unless it covers every port.
FreeKs == {k \in 1..(maxAttempts + WindowSize) : PairFree(requestedPort + 2 * k)}
FirstFreeK == CHOOSE k \in FreeKs : \A m \in FreeKs : k <= m

\* C2: concurrent calls of findAvailablePort with the same requested port (no
\* explicit CDP port) never return the same pair, nor pairs that share a port.
C2_NoSharedPort ==
  \A i, j \in pcallers :
    (/\ i # j
     /\ ~Explicit
     /\ PortDone(i) /\ presult[i].kind = "ok"
     /\ PortDone(j) /\ presult[j].kind = "ok")
      => {presult[i].port, presult[i].cdpPort}
           \cap {presult[j].port, presult[j].cdpPort} = {}

\* C7: with no explicit CDP port and both p and p+1 free, findAvailablePort(p)
\* returns port = p, cdpPort = p+1, requestedPort = p, wasAutoSelected = false.
C7_RequestedPairFree ==
  \A i \in pcallers :
    (PortDone(i) /\ ~Explicit /\ PairFree(requestedPort))
      => /\ presult[i].kind = "ok"
         /\ presult[i].port = requestedPort
         /\ presult[i].cdpPort = requestedPort + 1
         /\ presult[i].requestedPort = requestedPort
         /\ presult[i].wasAutoSelected = FALSE

C7_Witness ==
  \E i \in pcallers :
    /\ PortDone(i)
    /\ ~Explicit
    /\ maxAttempts = DefaultMaxAttempts
    /\ PairFree(requestedPort)
    /\ presult[i].kind = "ok"
    /\ presult[i].port = DefaultPort

\* wasAutoSelected is true exactly when the returned port is not the requested one
AutoFlagExact ==
  \A i \in pcallers :
    (PortDone(i) /\ presult[i].kind = "ok")
      => (presult[i].wasAutoSelected <=> presult[i].port # requestedPort)

\* C8 as stated: with no explicit CDP port (and the default maxAttempts), if p
\* or p+1 is occupied findAvailablePort(p) returns (p+2k, p+2k+1) for the
\* smallest k >= 1 whose two ports are free, with wasAutoSelected = true; and
\* wasAutoSelected is true exactly when the returned port is not the requested.
C8_NextFreePair ==
  /\ AutoFlagExact
  /\ \A i \in pcallers :
       (/\ PortDone(i)
        /\ ~Explicit
        /\ maxAttempts = DefaultMaxAttempts
        /\ ~PairFree(requestedPort)
        /\ FreeKs # {})
         => /\ presult[i].kind = "ok"
            /\ presult[i].port = requestedPort + 2 * FirstFreeK
            /\ presult[i].cdpPort = requestedPort + 2 * FirstFreeK + 1
            /\ presult[i].wasAutoSelected = TRUE

\* C8 amended: the same, provided the smallest such k is below maxAttempts.
C8_NextFreePairWithinAttempts ==
  /\ AutoFlagExact
  /\ \A i \in pcallers :
       (/\ PortDone(i)
        /\ ~Explicit
        /\ ~PairFree(requestedPort)
        /\ FreeKs # {}
        /\ FirstFreeK < maxAttempts)
         => /\ presult[i].kind = "ok"
            /\ presult[i].port = requestedPort + 2 * FirstFreeK
            /\ presult[i].cdpPort = requestedPort + 2 * FirstFreeK + 1
            /\ presult[i].wasAutoSelected = TRUE

C8_Witness ==
  \E i \in pcallers :
    /\ PortDone(i)
    /\ ~Explicit
    /\ ~PairFree(requestedPort)
    /\ ~PairFree(requestedPort + 2)
    /\ presult[i].kind = "ok"
    /\ presult[i].port = requestedPort + 4
    /\ presult[i].wasAutoSelected

\* what every return of the explicit pair looks like
ExplicitPairReturned(i) ==
  /\ presult[i].kind = "ok"
  /\ presult[i].port = requestedPort
  /\ presult[i].cdpPort = TheCdpPort
  /\ presult[i].wasAutoSelected = FALSE

\* C9 as stated: with an explicit CDP port the call never auto-selects - it
\* returns exactly (requestedPort, requestedCdpPort) with wasAutoSelected =
\* false when both are free, or fails with an error that names exactly the
\* ports that were occupied and the flags to change.
C9_ExplicitNamesOccupied ==
  \A i \in pcallers :
    (PortDone(i) /\ Explicit)
      => IF Free(requestedPort) /\ Free(TheCdpPort)
         THEN ExplicitPairReturned(i)
         ELSE /\ presult[i].kind = "inUse"
              /\ presult[i].named = {q \in {requestedPort, TheCdpPort} : ~Free(q)}
              /\ presult[i].flags =
                   {f \in {"--port", "--cdp-port"} :
                      \/ f = "--port" /\ ~Free(requestedPort)
                      \/ f = "--cdp-port" /\ ~Free(TheCdpPort)}

\* C9 amended: ... or fails with an error that names one occupied port and its
\* flag: the HTTP port and --port whenever the HTTP port is occupied, otherwise
\* the CDP port and --cdp-port.
C9_ExplicitNamesFirstOccupied ==
  \A i \in pcallers :
    (PortDone(i) /\ Explicit)
      => IF Free(requestedPort) /\ Free(TheCdpPort)
         THEN ExplicitPairReturned(i)
         ELSE /\ presult[i].kind = "inUse"
              /\ IF ~Free(requestedPort)
                 THEN presult[i].named = {requestedPort} /\ presult[i].flags = {"--port"}
                 ELSE presult[i].named = {TheCdpPort} /\ presult[i].flags = {"--cdp-port"}

C9_Witness ==
  \E i \in pcallers :
    /\ PortDone(i)
    /\ Explicit
    /\ ~Free(requestedPort)
    /\ ~Free(TheCdpPort)
    /\ presult[i].kind = "inUse"
    /\ presult[i].named = {requestedPort}

\* the primary ports of the range an exhaustion error states
StatedRange(r) == {c \in r.from..r.to : (c - r.from) % 2 = 0}

\* C10: in auto-selection mode the call probes at most maxAttempts candidate
\* pairs and then terminates; when no candidate pair is free it fails with an
\* error whose stated attempt count and stated range (first to last primary
\* port) equal the pairs that were actually probed.
C10_ExhaustionReportsProbedPairs ==
  \A i \in pcallers :
    ~Explicit =>
      /\ Cardinality(probed[i]) <= maxAttempts
      /\ (PortDone(i) /\ \A c \in probed[i] : ~PairFree(c))
           => presult[i].kind = "exhausted"
      /\ (PortDone(i) /\ presult[i].kind = "exhausted")
           => /\ presult[i].attempts = Cardinality(probed[i])
              /\ StatedRange(presult[i]) = probed[i]

(***************************************************************************)
(* Properties of the instance registry.                                    *)
(***************************************************************************)
\* The record files: the names under which getInstance finds an object.
RecordPorts(files) == {p \in RegPorts : getInstance(files, p).type = "object"}

\* The items of a sequence.
Items(seq) == {seq[k] : k \in 1..Len(seq)}

\* C11: at every instant the registry shows at most one record per primary
\* port, and it is the most recently registered one: after any sequence of
\* register / unregister / updateInstanceChromePid / cleanStaleInstances calls,
\* getInstance(port) is null or the record of the latest registerInstance for
\* that port (with the chromePid it has been given since), and no two items
\* of listInstances() have the same port, each being what getInstance shows.
C11_OneRecordPerPort ==
  /\ \A p \in RecordPorts(regFiles) :
       /\ lastReg[p].type = "object"
       /\ [getInstance(regFiles, p) EXCEPT !.chromePid = lastReg[p].chromePid]
            = lastReg[p]
  /\ LET all == listInstances(regFiles).items
     IN \A j, k \in 1..Len(all) :
          (all[j].type = "object" /\ all[k].type = "object")
            => /\ all[j].port = all[k].port => j = k
               /\ all[j] = getInstance(regFiles, all[j].port)

\* A registerInstance has just replaced the record of another server on its
\* port, while the other port holds a record too.
C11_Witness ==
  /\ rop.name = "register"
  /\ rop.found
  /\ RecordPorts(regFiles) = RegPorts
  /\ lastReg[rop.port].pid = 2
  /\ getInstance(regFiles, rop.port) = lastReg[rop.port]

\* C12: register / read round trip - right after registerInstance(r),
\* listInstances() returns and contains a record equal to r, and
\* getInstance(r.port) returns a record equal to r.
C12_RegisterReadRoundTrip ==
  [][\A r \in InstanceInfos :
       RegisterInstance(r)
         => /\ getInstance(regFiles', r.port) = r
            /\ ~listInstances(regFiles').raised
            /\ r \in Items(listInstances(regFiles').items)]_vars

\* C13: unregisterInstance(port) never raises and is idempotent - with or
\* without a record for the port it returns normally, getInstance(port) is
\* null afterwards, and every other file is as it was.
C13_UnregisterIdempotent ==
  [][\A p \in RegPorts :
       UnregisterInstance(p)
         => /\ ~rop'.raised
            /\ getInstance(regFiles', p) = JsNull
            /\ \A n \in FileNames \ {p} : regFiles'[n] = regFiles[n]]_vars

\* unregisterInstance has returned for a port that had no record, and the
\* record of another port is there.
C13_Witness ==
  /\ rop.name = "unregister"
  /\ ~rop.found
  /\ regFiles[rop.port] = RegNoFile
  /\ RecordPorts(regFiles) # {}

\* C14: listInstances() never fails because of a bad record file - it
\* returns, its result holds exactly the values of the well-formed record
\* files (no unreadable or malformed file, no file that is not *.json), and
\* it is sorted in ascending order of primary port.
C14_ListSkipsBadFiles ==
  rop.name = "list"
    => /\ ~rop.raised
       /\ Items(returned) = {getInstance(regFiles, p) : p \in RecordPorts(regFiles)}
       /\ \A j, k \in 1..Len(returned) : j < k => returned[j].port < returned[k].port

\* C15: updateInstanceChromePid(port, c) on a well-formed record sets its
\* chromePid to c and leaves its other fields and every other file as they
\* were; on a port with no record it returns without raising and changes
\* nothing.
C15_UpdateFrame ==
  [][\A p \in RegPorts :
       UpdateInstanceChromePid(p, ChromePid)
         => /\ ~rop'.raised
            /\ \A n \in FileNames \ {p} : regFiles'[n] = regFiles[n]
            /\ IF p \in RecordPorts(regFiles)
               THEN getInstance(regFiles', p)
                      = [getInstance(regFiles, p) EXCEPT !.chromePid = ChromePid]
               ELSE regFiles'[p] = regFiles[p]]_vars

\* updateInstanceChromePid has patched a record while another port holds a
\* record without a chromePid.
C15_Witness ==
  /\ rop.name = "update"
  /\ rop.found
  /\ getInstance(regFiles, rop.port).chromePid = ChromePid
  /\ getInstance(regFiles, rop.port).profileDir = "profile"
  /\ \E q \in RecordPorts(regFiles) : getInstance(regFiles, q).chromePid = UndefinedNum

\* C17: cleanStaleInstances() deletes exactly the well-formed records whose
\* pid is not a live process and returns exactly those; every record whose
\* pid is live stays as it is (as does every other file), and no process is
\* signalled.
C17_CleanStaleExact ==
  [][CleanStaleInstances
       => LET stalePorts == {p \in RecordPorts(regFiles) :
                               ~isProcessRunning(getInstance(regFiles, p).pid)}
          IN /\ ~rop'.raised
             /\ Items(returned') = {getInstance(regFiles, p) : p \in stalePorts}
             /\ \A p \in stalePorts : regFiles'[p] = RegNoFile
             /\ \A n \in FileNames \ stalePorts : regFiles'[n] = regFiles[n]
             /\ strace' = strace]_vars

\* C16: updateInstanceChromePid is a no-op when the record vanishes
\* concurrently - whatever another process does between its read and its
\* write, its write never puts a record under a port whose file is gone at
\* that moment: it never re-creates a deleted record.
C16_UpdateNeverRecreates ==
  [][UpdateWrite
       => (regFiles[instancePath(uport)] = RegNoFile
             => regFiles'[instancePath(uport)] = RegNoFile)]_vars

(***************************************************************************)
(* Properties of stopInstance.                                             *)
(***************************************************************************)
\* The signals of the trace, and the positions of the trace.
IsSignal(e) == e.ev = "signal"
Pos == 1..Len(strace)
\* The call found the server live / dead: its first probe.
FoundLive == Len(strace) >= 1 /\ strace[1] = Probe(sinfo.pid, TRUE)
FoundDead == Len(strace) >= 1 /\ strace[1] = Probe(sinfo.pid, FALSE)

\* C18: stopInstance(port) on a port with no readable record returns
\* {port, success: false} with the "No instance registered" message, sends no
\* signal and leaves the registry as it is.
C18_StopUnregistered ==
  [][\A p \in RegPorts :
       (StopCall(p) /\ getInstance(regFiles, p) = JsNull)
         => /\ spc' = "done"
            /\ sresult' = StopResult(p, FALSE, "No instance registered", "", "")
            /\ strace' = <<>>
            /\ regFiles' = regFiles]_vars

\* stopInstance has returned for a port whose file is not JSON, while the
\* other port holds the record of a live server.
C18_Witness ==
  /\ spc = "done"
  /\ sresult.message = "No instance registered"
  /\ regFiles[sport] = RegCorruptFile
  /\ \E q \in RecordPorts(regFiles) : isProcessRunning(getInstance(regFiles, q).pid)

\* C19: stopInstance(port) on a record whose owner pid is not live sends no
\* signal to the owner, sends SIGKILL to the recorded child if and only if
\* the child is live (every signal follows a probe that found the child
\* live, every such probe is followed by the SIGKILL, and a recorded child
\* that is live to the end was sent it), deletes the record, and returns
\* success = true with the "already stopped" message.
C19_StopDeadOwner ==
  (spc = "done" /\ FoundDead)
    => /\ \A k \in Pos : IsSignal(strace[k]) => strace[k].pid # sinfo.pid
       /\ \A k \in Pos : IsSignal(strace[k])
                            => strace[k] = Signal(sinfo.chromePid, "SIGKILL")
       /\ \A k \in Pos :
            IsSignal(strace[k]) => k > 1 /\ strace[k - 1] = Probe(sinfo.chromePid, TRUE)
       /\ (sinfo.chromePid \in RegPids /\ isProcessRunning(sinfo.chromePid))
            => \E k \in Pos : strace[k] = Signal(sinfo.chromePid, "SIGKILL")
       /\ \A k \in Pos :
            strace[k] = Probe(sinfo.chromePid, TRUE)
              => k < Len(strace) /\ strace[k + 1] = Signal(sinfo.chromePid, "SIGKILL")
       /\ regFiles[sport] = RegNoFile
       /\ sresult = StopResult(sport, TRUE, "was already stopped (cleaned registry)",
                               "", "")

\* stopInstance has returned after it found the owner dead and the child live.
C19_Witness ==
  /\ spc = "done"
  /\ FoundDead
  /\ \E k \in Pos : strace[k] = Signal(ChromePid, "SIGKILL")
  /\ sresult.success

\* C20: escalation order of stopInstance on a live owner - the first signal
\* is SIGTERM to the owner; SIGKILL goes to the owner only right after the
\* grace-period poll ended with the owner still live, never when it ended
\* with the owner gone; SIGKILL goes to the child only after the owner has
\* been handled (its poll ended with the owner gone, or SIGKILL was sent and
\* the second poll ended) and right after the child was found live; the
\* record is removed only after all signals and polls.
C20_EscalationOrder ==
  FoundLive
    => /\ \A k \in Pos :
            IsSignal(strace[k])
              => \E j \in 1..k : strace[j] = Signal(sinfo.pid, "SIGTERM")
       /\ \A k \in Pos :
            strace[k] = Signal(sinfo.pid, "SIGTERM")
              => \A j \in 1..(k - 1) : ~IsSignal(strace[j])
       /\ \A k \in Pos :
            strace[k] = Signal(sinfo.pid, "SIGKILL")
              => /\ k = 4
                 /\ strace[2] = Signal(sinfo.pid, "SIGTERM")
                 /\ strace[3] = PollEnd(sinfo.pid, TRUE)
       /\ (Len(strace) >= 3 /\ strace[3] = PollEnd(sinfo.pid, FALSE))
            => \A k \in Pos : strace[k] # Signal(sinfo.pid, "SIGKILL")
       /\ \A k \in Pos :
            (IsSignal(strace[k]) /\ strace[k].pid = sinfo.chromePid)
              => /\ strace[k].sig = "SIGKILL"
                 /\ k > 3
                 /\ strace[k - 1] = Probe(sinfo.chromePid, TRUE)
                 /\ \/ strace[3] = PollEnd(sinfo.pid, FALSE)
                    \/ /\ k > 5
                       /\ strace[4] = Signal(sinfo.pid, "SIGKILL")
                       /\ strace[5].ev = "pollEnd"
       /\ \A k \in Pos :
            strace[k].ev = "unregister"
              => /\ \A j \in Pos : (IsSignal(strace[j]) \/ strace[j].ev = "pollEnd")
                                       => j < k
                 /\ \E j \in 1..k : strace[j].ev = "pollEnd" /\ strace[j].pid = sinfo.pid
                 /\ hasChromePid(sinfo)
                      => \E j \in 1..k : strace[j].ev = "probe"
                                            /\ strace[j].pid = sinfo.chromePid

\* stopInstance has returned after the full escalation: SIGTERM, a poll that
\* ended with the owner live, SIGKILL, then SIGKILL to the live child.
C20_Witness ==
  /\ spc = "done"
  /\ FoundLive
  /\ \E k \in Pos : strace[k] = Signal(sinfo.pid, "SIGKILL")
  /\ \E k \in Pos : strace[k] = Signal(ChromePid, "SIGKILL")
  /\ \E k \in Pos : strace[k].ev = "unregister"

(***************************************************************************)
(* Properties of stopInstance's outcome and termination.                   *)
(***************************************************************************)
\* The final probes of the live-owner path, as the trace lists them: the
\* probe of the owner, and the probe of the recorded child if there is one.
FinalOwnerProbe ==
  IF hasChromePid(sinfo) THEN strace[Len(strace) - 1] ELSE strace[Len(strace)]
FinalChildProbe == strace[Len(strace)]

\* C21: when stopInstance(port) found a record for its port and no other
\* process registered the port during the call, no record for the port
\* exists when the call returns, with success true or false.
C21_StopRemovesRecord ==
  (spc = "done" /\ sinfo.type = "object")
    => /\ getInstance(regFiles, sport) = JsNull
       /\ regFiles[instancePath(sport)] = RegNoFile

\* a call that found a record and a live owner returned success = false
C21_Witness ==
  /\ spc = "done"
  /\ sinfo.type = "object"
  /\ FoundLive
  /\ sresult.success = FALSE
  /\ regFiles[instancePath(sport)] = RegNoFile

\* C22: on the live-owner path stopInstance returns success = true exactly
\* when its final probes found the owner not live and the recorded child,
\* if one is recorded, not live; otherwise it returns success = false with
\* the message that names the server and the child as running or stopped,
\* as the final probes found them.
C22_SuccessIffBothGone ==
  (spc = "done" /\ FoundLive)
    => LET ownerLive == FinalOwnerProbe.live
           childLive == hasChromePid(sinfo) /\ FinalChildProbe.live
       IN /\ FinalOwnerProbe = Probe(sinfo.pid, ownerLive)
          /\ hasChromePid(sinfo) => FinalChildProbe = Probe(sinfo.chromePid, childLive)
          /\ sresult.port = sport
          /\ sresult.success <=> (~ownerLive /\ ~childLive)
          /\ sresult.success => sresult.message = "stopped successfully"
          /\ ~sresult.success
               => /\ sresult.message = "may not have fully stopped"
                  /\ sresult.server = (IF ownerLive THEN "running" ELSE "stopped")
                  /\ sresult.chrome = (IF childLive THEN "running" ELSE "stopped")

\* the owner is gone at the end and the recorded child is still running
C22_Witness ==
  /\ spc = "done"
  /\ FoundLive
  /\ hasChromePid(sinfo)
  /\ ~FinalOwnerProbe.live
  /\ FinalChildProbe.live
  /\ sresult.success = FALSE
  /\ sresult.chrome = "running"

\* C23: stopInstance always terminates and never raises: once called it
\* returns a result, also when the processes never exit (every wait ends at
\* its deadline) and when a signal cannot be delivered; a process that
\* survives is reported in a result with success = false.
C23_StopTerminates ==
  (spc # "idle") ~> (spc = "done" /\ sresult # NoStopResult)

\* a call returned success = false after a signal to a process that had
\* exited since the probe and after waits that ended with the process running
C23_Witness ==
  /\ spc = "done"
  /\ sresult.success = FALSE
  /\ \E k \in 2..Len(strace) :
       /\ strace[k] = PollEnd(sinfo.pid, TRUE)
  /\ \E k \in 2..Len(strace) :
       /\ IsSignal(strace[k])
       /\ strace[k].pid = sinfo.chromePid
       /\ strace[k + 1] = PollEnd(sinfo.chromePid, FALSE)

(***************************************************************************)
(* Properties of formatUptime.                                             *)
(***************************************************************************)
\* C30: with e the elapsed time now - startedAt in whole seconds, formatUptime
\* gives "0s" when e is negative, "{e}s" when e < 60, "{m}m" when e is less
\* than an hour, "{h}h {m mod 60}m" when e is less than a day, and
\* "{d}d {h mod 24}h" otherwise, m, h and d being the whole minutes, hours
\* and days of e.
C30_FormatUptime ==
  uptime # NoUptime
    => LET e == (NowMs - uptimeStart) \div 1000
           m == e \div 60
           h == e \div 3600
           d == e \div 86400
       IN uptime = IF e < 0 THEN UptimeText(0, "s", 0, "")
                   ELSE IF e < 60 THEN UptimeText(e, "s", 0, "")
                   ELSE IF e < 3600 THEN UptimeText(m, "m", 0, "")
                   ELSE IF e < 86400 THEN UptimeText(h, "h", m % 60, "m")
                   ELSE UptimeText(d, "d", h % 24, "h")

\* 27 hours render as "1d 3h"
C30_Witness ==
  /\ uptimeStart = NowMs - 97200000
  /\ uptime = UptimeText(1, "d", 3, "h")

(***************************************************************************)
(* Properties of stopAllInstances.                                         *)
(***************************************************************************)
\* The ports that had a well-formed record when stopAllInstances was called.
StartRecords == RecordPorts(aStart.files)
\* Then the registry held nothing but records, and every owner was dead.
AllDeadAtStart ==
  \A p \in RegPorts :
    \/ aStart.files[p] = RegNoFile
    \/ /\ p \in StartRecords
       /\ getInstance(aStart.files, p).pid \notin aStart.live
IsStaleResult(r) == r.success /\ r.message = "Stale instance cleaned"
ResultsFor(p) == {k \in 1..Len(aresults) : aresults[k].port = p}

\* C24: stopAllInstances() over a registry of N records that all have dead
\* owners returns exactly N results, one per port, each with success = true
\* and the stale-cleaned message; it probed the child of every record that
\* names one and sent SIGKILL to each child found live, and to nothing else;
\* none of the N ports is left in the registry.
C24_StopAllStale ==
  (apc = "done" /\ AllDeadAtStart)
    => /\ Len(aresults) = Cardinality(StartRecords)
       /\ \A p \in StartRecords : Cardinality(ResultsFor(p)) = 1
       /\ \A k \in 1..Len(aresults) : IsStaleResult(aresults[k])
       /\ \A p \in StartRecords : regFiles[instancePath(p)] = RegNoFile
       /\ Cardinality({k \in 1..Len(atrace) : atrace[k].ev = "probe"})
            = Cardinality({p \in StartRecords :
                             getInstance(aStart.files, p).chromePid # UndefinedNum})
       /\ \A k \in 1..Len(atrace) :
            /\ atrace[k].ev \in {"probe", "signal"}
            /\ atrace[k].pid = ChromePid
            /\ atrace[k] = Probe(ChromePid, TRUE)
                 => k < Len(atrace) /\ atrace[k + 1] = Signal(ChromePid, "SIGKILL")
            /\ IsSignal(atrace[k])
                 => k > 1 /\ atrace[k - 1] = Probe(ChromePid, TRUE)

\* every port held the record of a dead owner, and a child was killed
C24_Witness ==
  /\ apc = "done"
  /\ AllDeadAtStart
  /\ StartRecords = RegPorts
  /\ Len(aresults) = NumPorts
  /\ \E k \in 1..Len(atrace) : atrace[k] = Signal(ChromePid, "SIGKILL")

\* C25: stopAllInstances() returns (it does not raise) with the results of
\* the stale records first and the results of its stopInstance calls after
\* them; the list holds each port that had a well-formed record at the start
\* exactly once and no other port, and the registry holds no well-formed
\* record when it returns; the stopInstance calls run one at a time.
C25_StopAllCoversRecords ==
  /\ apc # "raised"
  /\ (apc \in {"idle", "stale", "raised", "done"}) => spc = "idle"
  /\ apc = "done"
       => /\ \A p \in StartRecords : Cardinality(ResultsFor(p)) = 1
          /\ \A k \in 1..Len(aresults) : aresults[k].port \in StartRecords
          /\ \A i, j \in 1..Len(aresults) :
               (i < j /\ IsStaleResult(aresults[j])) => IsStaleResult(aresults[i])
          /\ RecordPorts(regFiles) = {}

(***************************************************************************)
(* Properties of cleanOrphanedChrome.                                      *)
(***************************************************************************)
\* The pids the call signalled in a step, and the signals that reached a
\* process.
KilledIn(step) == {otrace[k].pid : k \in {j \in 1..Len(otrace) : otrace[j].step = step}}
Delivered == {k \in 1..Len(otrace) : otrace[k].delivered}
\* The child pids and the owner pids of the records of the registry.
RecordedChildren ==
  {getInstance(regFiles, p).chromePid :
     p \in {q \in RecordPorts(regFiles) : hasChromePid(getInstance(regFiles, q))}}
RecordedOwners == {getInstance(regFiles, p).pid : p \in RecordPorts(regFiles)}

\* C26: the scan step of cleanOrphanedChrome sends no signal to a pid that the
\* registry, as it is after the stale sweep, records as a child or as an
\* owner, nor to the caller's pid; when the loop over the scanned pids has
\* ended it has sent SIGKILL, once, to every other pid of the scan.
C26_ScanSparesRecorded ==
  oscan.kind = "pids"
    => /\ KilledIn("scan") \cap (RecordedChildren \cup RecordedOwners \cup {CallerPid}) = {}
       /\ KilledIn("scan") \subseteq oscan.pids
       /\ \A i, j \in 1..Len(otrace) :
            (otrace[i].step = "scan" /\ otrace[j].step = "scan"
               /\ otrace[i].pid = otrace[j].pid) => i = j
       /\ opc = "done"
            => KilledIn("scan")
                 = oscan.pids \ (RecordedChildren \cup RecordedOwners \cup {CallerPid})

\* the scan listed a recorded child, a recorded owner, the caller and an
\* unrecorded browser, and only the last one was signalled
C26_Witness ==
  /\ opc = "done"
  /\ oscan.kind = "pids"
  /\ RecordedChildren \cap oscan.pids # {}
  /\ RecordedOwners \cap oscan.pids # {}
  /\ CallerPid \in oscan.pids
  /\ KilledIn("scan") = {OrphanPid}

\* C27: cleanOrphanedChrome() returns the number of distinct processes it
\* killed in its two steps: no process is counted twice and no signal that
\* failed to reach a process is counted.
C27_CountsProcessesKilled ==
  opc = "done" => cleaned = Cardinality({otrace[k].pid : k \in Delivered})

\* C28: when the process scan fails or matches nothing, cleanOrphanedChrome
\* does not raise: it returns the count of the stale-record step alone, and
\* the stale sweep has taken effect: the records whose owner was dead at the
\* call are gone and the other files are as they were.
C28_ScanFailureTolerated ==
  oscan.kind \in {"fail", "empty"}
    => /\ opc = "done"
       /\ KilledIn("scan") = {}
       /\ cleaned = Len(otrace)
       /\ \A p \in RegPorts :
            regFiles[instancePath(p)]
              = IF /\ p \in RecordPorts(oStart.files)
                   /\ getInstance(oStart.files, p).pid \notin oStart.live
                THEN RegNoFile ELSE oStart.files[instancePath(p)]

\* the scan failed after the stale step had swept a record and killed its child
C28_Witness ==
  /\ opc = "done"
  /\ oscan.kind = "fail"
  /\ cleaned = 1
  /\ \E p \in RecordPorts(oStart.files) : regFiles[instancePath(p)] = RegNoFile

(***************************************************************************)
(* Properties of the registry's reads under concurrent writers.            *)
(***************************************************************************)
\* C29: the registry's calls tolerate files that other processes delete or
\* rewrite between their steps: no call raises, and each completes as if the
\* record that vanished had been absent - listInstances returns records of
\* files that exist when it reads them, and an updateInstanceChromePid whose
\* record is gone when it writes leaves the registry without that record.
C29_VanishTolerated ==
  [][/\ ~rop'.raised
     /\ ListRead
          => \A k \in 1..Len(returned') :
               /\ returned'[k].type = "object"
               /\ returned'[k] = getInstance(regFiles, returned'[k].port)
     /\ (upc = "write" /\ upc' = "done")
          => (getInstance(regFiles, uport) = JsNull
                => getInstance(regFiles', uport) = JsNull)]_vars

(***************************************************************************)
(* Properties of the candidates of findAvailablePort.                      *)
(***************************************************************************)
\* The two ports of the candidate pair with primary port c.
PairOf(c) == {c, c + 1}

\* C31: in auto-selection mode every candidate primary port has the parity of
\* the requested port, the candidates probed are the requested port and its
\* successors in steps of 2, and the candidate pairs of one call are pairwise
\* disjoint: no port is probed as part of two candidate pairs.
C31_CandidatePairsDisjoint ==
  \A i \in pcallers :
    ~Explicit
      => /\ (candidate[i] - requestedPort) % 2 = 0
         /\ probed[i] = {requestedPort + 2 * k : k \in 0..(Cardinality(probed[i]) - 1)}
         /\ \A c, d \in probed[i] \cup {candidate[i]} :
              c # d => PairOf(c) \cap PairOf(d) = {}
         /\ sock[i] \subseteq PairOf(candidate[i])

\* a call probed three pairs and goes on
C31_Witness ==
  \E i \in pcallers :
    /\ ~Explicit
    /\ Cardinality(probed[i]) >= 3
    /\ candidate[i] = requestedPort + 6

\* C40: in auto-selection mode findAvailablePort never probes and never
\* returns a port above 65535: when the candidate or the candidate + 1 is above
\* 65535 the scan is over, also after fewer than maxAttempts pairs, and the
\* call fails with the exhaustion error.
C40_NoPortAboveRange ==
  \A i \in pcallers :
    ~Explicit
      => /\ \A c \in probed[i] : c + 1 <= MaxPortNumber
         /\ \A q \in sock[i] : q <= MaxPortNumber
         /\ ppc[i] \in {"httpListen", "httpClose", "cdpListen", "cdpClose"}
              => candidate[i] + 1 <= MaxPortNumber
         /\ (PortDone(i) /\ presult[i].kind = "ok")
              => presult[i].port <= MaxPortNumber /\ presult[i].cdpPort <= MaxPortNumber
         /\ (ppc[i] # "idle" /\ candidate[i] + 1 > MaxPortNumber)
              => PortDone(i) /\ presult[i].kind = "exhausted"

\* the scan ended at the top of the range after fewer pairs than maxAttempts
C40_Witness ==
  \E i \in pcallers :
    /\ ~Explicit
    /\ PortDone(i)
    /\ presult[i].kind = "exhausted"
    /\ probed[i] # {}
    /\ Cardinality(probed[i]) < maxAttempts
    /\ candidate[i] + 1 > MaxPortNumber

(***************************************************************************)
(* Properties of readLock and of the removals inside acquireProfileLock.   *)
(***************************************************************************)
\* Process i takes the step that is its readLock call.
ReadsLock(i) ==
  /\ lpc[i] \in {"readExisting", "readWinner"}
  /\ lpc'[i] # lpc[i]
\* What that call returned.
ReadLockResult(i) == IF lpc[i] = "readExisting" THEN existing'[i] ELSE winner'[i]

\* C32: readLock returns null, and does not raise, when the lock file is
\* missing, is not valid JSON, or lacks a numeric pid or port; otherwise it
\* returns the stored record; it never changes the lock file.
C32_ReadLockTotal ==
  [][\A i \in Procs :
       ReadsLock(i)
         => /\ lockFile.kind \in {"absent", "corrupt", "incomplete"}
                 => ReadLockResult(i) = Null
            /\ lockFile.kind = "record" => ReadLockResult(i) = lockFile
            /\ lockFile' = lockFile
            /\ lpc'[i] \notin {"raised", "done"}]_vars

\* a call read a lock file without numeric pid / port as no record
C32_Witness ==
  \E i \in Procs :
    /\ lpc[i] = "write1"
    /\ lockFile = IncompleteFile
    /\ existing[i] = Null

\* C33: a lock file owned by a live process is never deleted by the
\* acquireProfileLock of another process: each removeLock inside the call
\* (of the stale lock, of the lost race) deletes only a lock file whose
\* recorded pid is not live at the moment of the deletion.
C33_RemovesOnlyDeadOwnersLock ==
  [][\A i \in Procs :
       (RemoveStale(i) \/ RemoveLost(i))
         => (lockFile.kind = "record" => ~isProcessRunning(lockFile.pid))]_vars

\* C34: a malformed lock file counts as no holder: an uncontended
\* acquireProfileLock on a directory with such a file does not end with a
\* conflict; it loses the first exclusive create, reads no valid winner,
\* deletes the file and succeeds at the one retry, which leaves the record of
\* the caller.
C34_MalformedLockReplaced ==
  \A i \in Procs :
    (/\ lpc[i] = "done"
     /\ OthersIdle(i)
     /\ removes[i] = 0
     /\ atStart.file.kind \in {"corrupt", "incomplete"})
      => /\ lresult[i] = Returned
         /\ existing[i] = Null
         /\ winner[i] = Null
         /\ wxTries[i] = 2
         /\ unlinks[i] = 1
         /\ lockFile = LockInfo(i, portOf(i), Now)
         /\ lockFile = lockData[i]

C34_Witness ==
  \E i \in Procs :
    /\ lpc[i] = "done"
    /\ OthersIdle(i)
    /\ atStart.file = CorruptFile
    /\ wxTries[i] = 2
    /\ lresult[i] = Returned
    /\ lockFile = LockInfo(i, portOf(i), Now)

(***************************************************************************)
(* Properties of stopInstance when instances register during the call.     *)
(***************************************************************************)
\* A server other than the record's owner registered the stopped port while
\* the call was running, and no call of the registry came after it.
NewerRegistered ==
  /\ rop.name = "register"
  /\ rop.port = sport
  /\ sinfo.type = "object"

\* C35 as stated: stopInstance removes only the record it read at the start
\* of the call - a record that a new live instance registered under the same
\* port during the call is still present when the call returns.
C35_NewerRecordSurvives ==
  (spc = "done" /\ NewerRegistered)
    => /\ getInstance(regFiles, sport).type = "object"
       /\ getInstance(regFiles, sport).pid # sinfo.pid

\* C35, amended: stopInstance removes whatever record is stored under the
\* port when it reaches unregisterInstance - after that step, and when the
\* call returns, the port holds the record registered since that step, if
\* there is one, and no record otherwise.
C35_RemovesWhateverIsStored ==
  (spc \in {"report", "done"} /\ sinfo.type = "object")
    => getInstance(regFiles, sport) = lastReg[sport]

\* stopInstance returned after a newer record was registered during its
\* waits, and the newer record is gone.
C35_Witness ==
  /\ spc = "done"
  /\ NewerRegistered
  /\ FoundLive
  /\ regFiles[sport] = RegNoFile
  /\ lastReg[sport] = JsNull

(***************************************************************************)
(* Properties of cleanOrphanedChrome while an instance starts.             *)
(***************************************************************************)
\* C36: cleanOrphanedChrome never kills the browser of a live instance - the
\* scan step sends no signal to the browser that a live, starting server has
\* spawned, whatever the order of the steps of the two processes.
C36_SparesStartingChild ==
  isProcessRunning(StarterPid)
    => \A k \in 1..Len(otrace) :
         otrace[k].step = "scan" => otrace[k].pid # ChromePid

(***************************************************************************)
(* Properties of the result and of the frame of stopInstance.              *)
(***************************************************************************)
\* The owner and the recorded browser of the record that stopInstance read.
StopTargets ==
  {sinfo.pid} \cup (IF hasChromePid(sinfo) THEN {sinfo.chromePid} ELSE {})

\* C37: whenever stopInstance returns success = true, on the already-dead path
\* as on the live path, neither the owner nor the recorded browser of the
\* record is a live process at the moment of the return.
C37_SuccessMeansGone ==
  (spc = "done" /\ sresult.success)
    => \A pid \in StopTargets : ~isProcessRunning(pid)

\* C38: stopInstance(port) sends signals only to the owner and to the browser
\* stored in the record of the port as read at the start of the call, and it
\* changes or deletes no file of the registry but the one of that port.
C38_StopFrame ==
  [][/\ \A n \in FileNames \ {sport'} : regFiles'[n] = regFiles[n]
     /\ \A k \in 1..Len(strace') :
          strace'[k].ev = "signal" => strace'[k].pid \in StopTargets']_vars

\* stopInstance returned after signalling a live owner, and the record of
\* another port, owned by another live server, is in the registry.
C38_Witness ==
  /\ spc = "done"
  /\ FoundLive
  /\ \E k \in 1..Len(strace) : strace[k] = Signal(sinfo.pid, "SIGKILL")
  /\ regFiles[sport] = RegNoFile
  /\ \E p \in RegPorts \ {sport} :
       /\ getInstance(regFiles, p).type = "object"
       /\ getInstance(regFiles, p).pid # sinfo.pid
       /\ isProcessRunning(getInstance(regFiles, p).pid)

(***************************************************************************)
(* Properties of the keys of the registry.                                 *)
(***************************************************************************)
\* C39: key/content agreement - after any sequence of registerInstance,
\* updateInstanceChromePid, unregisterInstance, cleanStaleInstances and
\* stopInstance calls, every record of the registry is stored in the file
\* named by the port field inside it.
C39_KeyEqualsPort ==
  \A n \in FileNames :
    (endsWithJson(n) /\ ~readThrows(regFiles[n]) /\ parse(regFiles[n]).type = "object")
      => parse(regFiles[n]).port = n

\* A record that was registered and then patched is stored under a port other
\* than the default one, after a stopInstance call removed the record of
\* another port.
C39_Witness ==
  /\ spc = "done"
  /\ sresult.success
  /\ \E p \in RegPorts \ {sport, DefaultPort} :
       /\ getInstance(regFiles, p).type = "object"
       /\ getInstance(regFiles, p).chromePid = ChromePid
====
